---- MODULE Spec2Model ----
(***************************************************************************)
(* Twitch clip downloader and video post-processing utility.              *)
(*                                                                         *)
(* The module models, from the Python sources under                        *)
(* src/twitch-clip-downloader/:                                            *)
(*   - filename sanitization and the view-count ranking (pure functions),  *)
(*   - scrape_clips (the Lister) over the listing tool's exit status and   *)
(*     line-delimited output,                                              *)
(*   - download_clip (the Downloader) over a file system and the download  *)
(*     tool's outcomes,                                                    *)
(*   - main (the Orchestrator),                                            *)
(*   - the processing operations of video_processor.py and batch_process   *)
(*     (the Batch Runner),                                                 *)
(*   - the entry points and the two interactive shells (buttons, background*)
(*     runs, the event loop, the dependency check, the transcoder location)*)
(*     and the log sink,                                                   *)
(*   - the listing command each call site builds.                          *)
(* Each subsystem has its own specification over its own variables; the    *)
(* other variables stay at their idle values.                              *)
(***************************************************************************)
EXTENDS Integers, Sequences, FiniteSets, TLC

(***************************************************************************)
(* Bounds of the model.                                                    *)
(***************************************************************************)
MaxTitleLen == 3
MaxApply == 2
MaxRankLen == 4
MaxViews == 2
MaxLines == 3
MaxCalls == 3
MaxListed == 2
MaxDirect == 2
MaxOps == 2
MaxRuns == 2
MaxLogs == 1
MaxFfmpegLog == 2
MaxLimit == 2

VARIABLES
    title,              \* sanitize harness: the title given
    sanitized,          \* sanitize harness: results of successive applications
    unranked,           \* ranking harness: the listed clips
    ranked,             \* ranking harness: <<>> or <<the sorted list>>
    sorted,             \* ranking harness: whether clips.sort has run
    entry,              \* Lister: the module whose scrape_clips runs
    result,             \* Lister: subprocess.run's result (returncode, stdout)
    scraped,            \* Lister: <<>> or <<what the scrape_clips call did>>
    q_site,             \* Listing request: the call site that builds it
    q_input,            \* Listing request: the inputs of the call site
    q_command,          \* Listing request: <<>> or <<the command built>>
    files,              \* Downloader: the paths that exist on disk
    dl_prev,            \* Downloader: the download_clip call before the last
    dl_last,            \* Downloader: the last download_clip call
    dl_count,           \* Downloader: the number of calls made
    o_pc,               \* Orchestrator: where the run is
    o_opts,             \* Orchestrator: module run and its options
    o_listed,           \* Orchestrator: <<>> or <<what scrape_clips returned>>
    clips,              \* Orchestrator: the clips list of the run
    o_i,                \* Orchestrator: index of the next clip of the loop
    downloaded_clips,   \* Orchestrator: the (clip, path) pairs collected
    disk,               \* Orchestrator: the paths that exist on disk
    o_trace,            \* Orchestrator: the component calls made, in order
    o_status,           \* Orchestrator: how the run ended
    o_invoked,          \* Orchestrator: the clips the download tool was run for
    temp_list,          \* Operations: whether concat_list.txt exists on disk
    op_last,            \* Operations: <<>> or <<the last direct operation call>>
    op_count,           \* Operations: the number of direct calls made
    b_pc,               \* Batch Runner: where batch_process is
    b_args,             \* Batch Runner: <<>> or <<its arguments and machine>>
    b_file,             \* Batch Runner: index of the current video file
    b_op,               \* Batch Runner: index of the next operation
    current_input,      \* Batch Runner: current_input (None or a path)
    processed_files,    \* Batch Runner: processed_files
    op_calls,           \* Batch Runner: the operation calls made, in order
    s_module,           \* Shell: the entry point that was started
    s_tools,            \* Shell: which external tools are installed
    s_pc,               \* Shell: "init", "pipeline", "ready" or "exited"
    s_exit,             \* Shell: <<>> or <<the exit status of the process>>
    s_status,           \* Shell: the text of the status bar
    s_warned,           \* Shell: whether a missing-dependency warning was shown
    start_button,       \* Shell: state of the "Start Download" button
    deps_button,        \* Shell: state of the "Check Dependencies" button
    s_runs,             \* Shell: the pipeline runs started, each with its position
    s_after,            \* Shell: the callbacks pending in the event loop
    ffmpeg_path,        \* Shell: self.ffmpeg_path of simple_gui (<<>> or <<location>>)
    s_ffmpeg,           \* Shell: the locations recorded and the download commands run
    tcl_threaded,       \* Log sink: whether Tcl was built with threads
    log_state,          \* Log sink: the "state" option of the text widget
    log_text,           \* Log sink: the chunks the text widget shows
    log_buffer,         \* Log sink: RedirectText.buffer
    w_pc,               \* Log sink: each lane's position in RedirectText.write
    w_tmp,              \* Log sink: each lane's value read from self.buffer
    w_done              \* Log sink: the number of writes each lane has begun

sanVars == <<title, sanitized>>
rankVars == <<unranked, ranked, sorted>>
listerVars == <<entry, result, scraped, q_site, q_input, q_command>>
dlVars == <<files, dl_prev, dl_last, dl_count>>
orchVars ==
    <<o_pc, o_opts, o_listed, clips, o_i, downloaded_clips, disk, o_trace, o_status,
      o_invoked>>
opsVars == <<temp_list, op_last, op_count>>
batchVars == <<b_pc, b_args, b_file, b_op, current_input, processed_files, op_calls>>
shellVars ==
    <<s_module, s_tools, s_pc, s_exit, s_status, s_warned, start_button, deps_button,
      s_runs, s_after, ffmpeg_path, s_ffmpeg>>
logVars == <<tcl_threaded, log_state, log_text, log_buffer, w_pc, w_tmp, w_done>>
vars ==
    <<sanVars, rankVars, listerVars, dlVars, orchVars, opsVars, batchVars, shellVars,
      logVars>>

(***************************************************************************)
(* Python's None, and an optional value as a sequence of length 0 or 1.    *)
(***************************************************************************)
None == <<>>
Some(x) == <<x>>

(***************************************************************************)
(* Filename sanitization: re.sub(r'[\\/*?:"<>|]', '_', title).             *)
(* A title is a sequence of characters; the character class of the regex   *)
(* is InvalidChars and every single match is replaced by "_".              *)
(***************************************************************************)
InvalidChars == {"\\", "/", "*", "?", ":", "\"", "<", ">", "|"}

SanitizeDropsPipe(t) ==
    [i \in 1..Len(t) |-> IF t[i] \in (InvalidChars \ {"|"}) THEN "_" ELSE t[i]]

Sanitize(t) ==
    [i \in 1..Len(t) |-> IF t[i] \in InvalidChars THEN "_" ELSE t[i]]

(***************************************************************************)
(* Ranking: clips.sort(key=lambda x: x.get('view_count', 0), reverse=True) *)
(* list.sort is stable, also with reverse=True: an element is placed after *)
(* every element whose key is greater than or equal to its own.            *)
(***************************************************************************)
InsertDescTiesFirst(s, c) ==
    LET before == {i \in 1..Len(s) : s[i].view_count > c.view_count}
        k == IF before = {} THEN 0 ELSE CHOOSE i \in before : \A j \in before : j <= i
    IN SubSeq(s, 1, k) \o <<c>> \o SubSeq(s, k + 1, Len(s))

InsertDesc(s, c) ==
    LET before == {i \in 1..Len(s) : s[i].view_count >= c.view_count}
        k == IF before = {} THEN 0 ELSE CHOOSE i \in before : \A j \in before : j <= i
    IN SubSeq(s, 1, k) \o <<c>> \o SubSeq(s, k + 1, Len(s))

RECURSIVE SortFrom(_, _)
SortFrom(acc, rest) ==
    IF rest = <<>> THEN acc ELSE SortFrom(InsertDesc(acc, Head(rest)), Tail(rest))

SortByViewsDesc(cs) == SortFrom(<<>>, cs)

(***************************************************************************)
(* Sequences of length at most n over S.                                    *)
(***************************************************************************)
SeqUpTo(S, n) == UNION {[1..k -> S] : k \in 0..n}

(***************************************************************************)
(* Sanitize harness: a title is drawn, then sanitized repeatedly.           *)
(***************************************************************************)
TitleChars == InvalidChars \cup {"_", "a", " "}

SanIdle == title = <<>> /\ sanitized = <<>>
RankIdle == unranked = <<>> /\ ranked = None /\ sorted = FALSE
RequestIdle == q_site = "cli" /\ q_input = None /\ q_command = None
ListerIdle == entry = "cli" /\ result = None /\ scraped = None /\ RequestIdle
DlIdle == files = {} /\ dl_prev = None /\ dl_last = None /\ dl_count = 0
OrchIdle ==
    /\ o_pc = "idle" /\ o_opts = None /\ o_listed = None /\ clips = <<>> /\ o_i = 0
    /\ downloaded_clips = <<>> /\ disk = {} /\ o_trace = <<>> /\ o_status = "idle"
    /\ o_invoked = <<>>
OpsIdle == temp_list = FALSE /\ op_last = None /\ op_count = 0
BatchIdle ==
    /\ b_pc = "idle" /\ b_args = None /\ b_file = 0 /\ b_op = 0
    /\ current_input = None /\ processed_files = <<>> /\ op_calls = <<>>
ShellIdle ==
    /\ s_module = "cli" /\ s_tools = <<>> /\ s_pc = "idle" /\ s_exit = <<>>
    /\ s_status = "" /\ s_warned = FALSE /\ start_button = "normal"
    /\ deps_button = "normal" /\ s_runs = <<>> /\ s_after = <<>>
    /\ ffmpeg_path = <<>> /\ s_ffmpeg = <<>>
LogIdle ==
    /\ tcl_threaded = TRUE /\ log_state = "disabled" /\ log_text = <<>>
    /\ log_buffer = <<>> /\ w_pc = <<>> /\ w_tmp = <<>> /\ w_done = <<>>

SanInit ==
    /\ title \in SeqUpTo(TitleChars, MaxTitleLen)
    /\ sanitized = <<>>
    /\ RankIdle /\ ListerIdle /\ DlIdle /\ OrchIdle /\ OpsIdle /\ BatchIdle /\ ShellIdle
    /\ LogIdle

ApplySanitize ==
    /\ Len(sanitized) < MaxApply
    /\ sanitized' = Append(sanitized,
                           Sanitize(IF sanitized = <<>> THEN title
                                    ELSE sanitized[Len(sanitized)]))
    /\ UNCHANGED <<title, rankVars, listerVars, dlVars, orchVars, opsVars, batchVars,
                   shellVars,
                   logVars>>

SpecSanitize == SanInit /\ [][ApplySanitize]_vars

(* C5: sanitization maps each occurrence of \ / * ? : " < > | in a title to _
   and leaves every other character unchanged, and sanitizing an already
   sanitized title returns it unchanged. *)
C5_SanitizeMapsAndIsIdempotent ==
    /\ Len(sanitized) >= 1 =>
          /\ Len(sanitized[1]) = Len(title)
          /\ \A i \in 1..Len(title) :
                sanitized[1][i] =
                    IF title[i] \in {"\\", "/", "*", "?", ":", "\"", "<", ">", "|"}
                    THEN "_" ELSE title[i]
    /\ \A k \in 2..Len(sanitized) : sanitized[k] = sanitized[k - 1]

C5_Witness ==
    /\ Len(sanitized) = 2
    /\ Len(title) = 3
    /\ title[1] = "|" /\ title[2] = "a" /\ title[3] = "\\"

(***************************************************************************)
(* Ranking harness: a listing is drawn, then ranked.                        *)
(***************************************************************************)
RankInputs ==
    {[i \in 1..Len(v) |-> [id |-> i, view_count |-> v[i]]] :
        v \in SeqUpTo(0..MaxViews, MaxRankLen)}

RankInit ==
    /\ unranked \in RankInputs
    /\ ranked = None
    /\ sorted = FALSE
    /\ SanIdle /\ ListerIdle /\ DlIdle /\ OrchIdle /\ OpsIdle /\ BatchIdle /\ ShellIdle
    /\ LogIdle

Rank ==
    /\ ~sorted
    /\ ranked' = Some(SortByViewsDesc(unranked))
    /\ sorted' = TRUE
    /\ UNCHANGED <<unranked, sanVars, listerVars, dlVars, orchVars, opsVars, batchVars,
                   shellVars,
                   logVars>>

SpecRank == RankInit /\ [][Rank]_vars

(* C1: the ranking step returns a permutation of its input in which view_count
   is non-increasing, and records with equal view_count keep their relative
   listing order (the id of a record is its place in the listing). *)
C1_RankIsStableSortedPermutation ==
    sorted =>
        LET r == ranked[1] IN
        /\ Len(r) = Len(unranked)
        /\ \A i \in 1..Len(unranked) :
              Cardinality({j \in 1..Len(r) : r[j] = unranked[i]}) = 1
        /\ \A i \in 1..(Len(r) - 1) : r[i].view_count >= r[i + 1].view_count
        /\ \A i, j \in 1..Len(r) :
              (i < j /\ r[i].view_count = r[j].view_count) => r[i].id < r[j].id

C1_Witness ==
    /\ sorted
    /\ Len(unranked) = 3
    /\ unranked[1].view_count < unranked[2].view_count
    /\ unranked[2].view_count = unranked[3].view_count
    /\ ranked[1][1] = unranked[2]
    /\ ranked[1][2] = unranked[3]

(***************************************************************************)
(* The Lister: scrape_clips.                                                *)
(*                                                                         *)
(* The listing tool's standard output is a sequence of lines (the text     *)
(* split at '\n').  A line is empty, blank (white space only), malformed   *)
(* (json.loads raises JSONDecodeError), a JSON value that is not an object *)
(* (json.loads returns a list, number, string or null), or a JSON object;  *)
(* a JSON object is a function from its keys, a missing key being outside  *)
(* its DOMAIN.                                                             *)
(***************************************************************************)
Username == "foo"

JsonObjects ==
    { [id |-> "1", title |-> <<"a", ":", "b">>, webpage_url |-> "u1", view_count |-> 1],
      [id |-> "2", title |-> <<"a", "?", "b">>, webpage_url |-> "u2", view_count |-> 2],
      [id |-> "3", title |-> <<"c">>, view_count |-> 2],
      [id |-> "4", webpage_url |-> "u4"] }

Lines ==
    {[kind |-> k] : k \in {"empty", "blank", "malformed", "scalar"}}
        \cup {[kind |-> "object", obj |-> o] : o \in JsonObjects}

\* dict.get(key, default)
Get(d, key, default) == IF key \in DOMAIN d THEN d[key] ELSE default

\* result.stdout.strip().split('\n'): white space at both ends is removed, so
\* leading and trailing empty or blank lines go; ''.split('\n') is [''].
StripSplit(out) ==
    LET solid == {i \in 1..Len(out) : out[i].kind \notin {"empty", "blank"}}
    IN IF solid = {} THEN <<[kind |-> "empty"]>>
       ELSE LET lo == CHOOSE i \in solid : \A j \in solid : i <= j
                hi == CHOOSE i \in solid : \A j \in solid : j <= i
            IN SubSeq(out, lo, hi)

\* The clip record built from a parsed object (lines 114-123).
ClipOf(o, username) ==
    [ id |-> Get(o, "id", ""),
      title |-> Get(o, "title", <<"Untitled Clip">>),
      url |-> Get(o, "webpage_url", ""),
      view_count |-> Get(o, "view_count", 0),
      broadcaster_name |-> username ]

\* The loop over the lines: an empty line is skipped, a line json.loads
\* rejects is skipped (except json.JSONDecodeError), an object appends a
\* clip; on a JSON value without .get the AttributeError leaves the loop.
RECURSIVE ParseLines(_, _, _)
ParseLines(lines, username, acc) ==
    IF lines = <<>> THEN [clips |-> acc, error |-> FALSE]
    ELSE LET l == Head(lines) IN
         CASE l.kind = "empty" -> ParseLines(Tail(lines), username, acc)
           [] l.kind \in {"blank", "malformed"} -> ParseLines(Tail(lines), username, acc)
           [] l.kind = "scalar" -> [clips |-> acc, error |-> TRUE]
           [] l.kind = "object" ->
                ParseLines(Tail(lines), username, Append(acc, ClipOf(l.obj, username)))

\* A scrape_clips whose outer try lacks "except Exception".
scrape_clips_NoOuterExcept(module, username, res) ==
    IF res.returncode # 0 THEN [clips |-> <<>>, raised |-> FALSE]
    ELSE LET r == ParseLines(StripSplit(res.stdout), username, <<>>) IN
         IF r.error THEN [clips |-> <<>>, raised |-> TRUE]
         ELSE [clips |-> IF module = "simple_gui" THEN SortByViewsDesc(r.clips)
                         ELSE r.clips,
               raised |-> FALSE]

\* A scrape_clips that does not look at the exit status.
scrape_clips_IgnoresReturncode(module, username, res) ==
    LET r == ParseLines(StripSplit(res.stdout), username, <<>>) IN
    IF r.error THEN [clips |-> <<>>, raised |-> FALSE]
    ELSE [clips |-> IF module = "simple_gui" THEN SortByViewsDesc(r.clips)
                    ELSE r.clips,
          raised |-> FALSE]

\* scrape_clips of twitch_clip_downloader.py ("cli") and of simple_gui.py
\* ("simple_gui", which also sorts): what it returns and whether an
\* exception leaves the call.  A non-zero exit status returns []; an
\* exception inside the try is caught by "except Exception" and returns [].
scrape_clips(module, username, res) ==
    IF res.returncode # 0 THEN [clips |-> <<>>, raised |-> FALSE]
    ELSE LET r == ParseLines(StripSplit(res.stdout), username, <<>>) IN
         IF r.error THEN [clips |-> <<>>, raised |-> FALSE]
         ELSE [clips |-> IF module = "simple_gui" THEN SortByViewsDesc(r.clips)
                         ELSE r.clips,
               raised |-> FALSE]

(***************************************************************************)
(* Lister harness: the tool's result is drawn, then scrape_clips runs.      *)
(***************************************************************************)
ListerInit ==
    /\ entry \in {"cli", "simple_gui"}
    /\ result \in {Some([returncode |-> rc, stdout |-> out]) :
                      rc \in {0, 1}, out \in SeqUpTo(Lines, MaxLines)}
    /\ scraped = None
    /\ RequestIdle
    /\ SanIdle /\ RankIdle /\ DlIdle /\ OrchIdle /\ OpsIdle /\ BatchIdle /\ ShellIdle
    /\ LogIdle

ScrapeClips ==
    /\ scraped = None
    /\ scraped' = Some(scrape_clips(entry, Username, result[1]))
    /\ UNCHANGED <<q_site, q_input, q_command>>
    /\ UNCHANGED <<entry, result, sanVars, rankVars, dlVars, orchVars, opsVars, batchVars,
                   shellVars,
                   logVars>>

SpecLister == ListerInit /\ [][ScrapeClips]_vars

\* The non-empty lines of the tool's output, and those json.loads rejects.
NonEmptyLines(out) == {i \in 1..Len(out) : out[i].kind # "empty"}
UnparsableLines(out) == {i \in 1..Len(out) : out[i].kind \in {"blank", "malformed"}}

(* C4: for any listing-tool output of N non-empty lines of which K fail to
   parse as JSON, the Lister returns normally (no exception leaves the call)
   with at most N - K records. *)
C4_ListerNeverRaisesAtMostNMinusK ==
    scraped # None =>
        /\ ~scraped[1].raised
        /\ Len(scraped[1].clips) <=
              Cardinality(NonEmptyLines(result[1].stdout))
                  - Cardinality(UnparsableLines(result[1].stdout))

C4_Witness ==
    /\ scraped # None
    /\ result[1].returncode = 0
    /\ Len(result[1].stdout) = 3
    /\ result[1].stdout[2].kind = "malformed"
    /\ Len(scraped[1].clips) = 2

(* C10: if the listing tool exits with a non-zero status, the Lister returns
   an empty sequence, whatever the tool printed on standard output. *)
C10_NonZeroExitReturnsEmpty ==
    (scraped # None /\ result[1].returncode # 0) => scraped[1].clips = <<>>

C10_Witness ==
    /\ scraped # None
    /\ result[1].returncode # 0
    /\ \E i \in 1..Len(result[1].stdout) : result[1].stdout[i].kind = "object"
    /\ scraped[1].clips = <<>>

(***************************************************************************)
(* The Downloader: download_clip.                                           *)
(*                                                                         *)
(* A path is the directory and the file name's parts; the file system is   *)
(* the set of paths that exist.  The download tool is external: it exits   *)
(* zero or non-zero, and either way the destination file is there or not   *)
(* afterwards; subprocess.run may also fail to start it (OSError).         *)
(***************************************************************************)
Formats == {"mp4", "mov"}
Dirs == {"downloads", "elsewhere"}

DownloadOutcomes ==
    {[status |-> st, wrote |-> w] : st \in {"exit0", "exit1"}, w \in BOOLEAN}
        \cup {[status |-> "oserror", wrote |-> FALSE]}
NotRun == [status |-> "not run", wrote |-> FALSE]

\* os.path.join(output_dir, f"{broadcaster} - {sanitized_title}.{output_format}")
OutputPath(clip, dir, fmt) ==
    [dir |-> dir, broadcaster |-> clip.broadcaster_name,
     name |-> Sanitize(clip.title), ext |-> fmt]

\* A download_clip without the "already exists" check.
download_clip_NoExistsCheck(clip, dir, fmt, fs, tool) ==
    IF clip.url = "" THEN [ret |-> None, invoked |-> FALSE, files |-> fs]
    ELSE LET p == OutputPath(clip, dir, fmt)
             after == IF tool.wrote THEN fs \cup {p} ELSE fs
         IN IF tool.status = "exit0" /\ p \in after
            THEN [ret |-> Some(p), invoked |-> TRUE, files |-> after]
            ELSE [ret |-> None, invoked |-> TRUE, files |-> after]

\* A download_clip that returns the path whenever the tool exited zero,
\* without looking for the file.
download_clip_TrustsExitStatus(clip, dir, fmt, fs, tool) ==
    IF clip.url = "" THEN [ret |-> None, invoked |-> FALSE, files |-> fs]
    ELSE LET p == OutputPath(clip, dir, fmt) IN
         IF p \in fs THEN [ret |-> Some(p), invoked |-> FALSE, files |-> fs]
         ELSE IF tool.status = "oserror"
              THEN [ret |-> None, invoked |-> TRUE, files |-> fs]
         ELSE LET after == IF tool.wrote THEN fs \cup {p} ELSE fs IN
              IF tool.status = "exit0"
              THEN [ret |-> Some(p), invoked |-> TRUE, files |-> after]
              ELSE [ret |-> None, invoked |-> TRUE, files |-> after]

\* A download_clip without the "if not clip_url" check.
download_clip_NoUrlCheck(clip, dir, fmt, fs, tool) ==
    LET p == OutputPath(clip, dir, fmt) IN
    IF p \in fs THEN [ret |-> Some(p), invoked |-> FALSE, files |-> fs]
    ELSE IF tool.status = "oserror"
         THEN [ret |-> None, invoked |-> TRUE, files |-> fs]
    ELSE LET after == IF tool.wrote THEN fs \cup {p} ELSE fs IN
         IF tool.status = "exit0" /\ p \in after
         THEN [ret |-> Some(p), invoked |-> TRUE, files |-> after]
         ELSE [ret |-> None, invoked |-> TRUE, files |-> after]

\* download_clip(clip, output_dir, output_format) on the file system fs with
\* the download tool behaving as `tool`: what it returns (None or the path),
\* whether subprocess.run was called on the download command, and the file
\* system afterwards.
download_clip(clip, dir, fmt, fs, tool) ==
    IF clip.url = "" THEN [ret |-> None, invoked |-> FALSE, files |-> fs]
    ELSE LET p == OutputPath(clip, dir, fmt) IN
         IF p \in fs THEN [ret |-> Some(p), invoked |-> FALSE, files |-> fs]
         ELSE IF tool.status = "oserror"
              THEN [ret |-> None, invoked |-> TRUE, files |-> fs]
         ELSE LET after == IF tool.wrote THEN fs \cup {p} ELSE fs IN
              IF tool.status # "exit0"
              THEN [ret |-> None, invoked |-> TRUE, files |-> after]
              ELSE IF p \notin after
                   THEN [ret |-> None, invoked |-> TRUE, files |-> after]
                   ELSE [ret |-> Some(p), invoked |-> TRUE, files |-> after]

(***************************************************************************)
(* Downloader harness: download_clip is called repeatedly, each time with  *)
(* a listed clip, a directory, a format and a behaviour of the tool.        *)
(***************************************************************************)
ListedClips == {ClipOf(o, Username) : o \in JsonObjects}

DlInit ==
    /\ files = {}
    /\ dl_prev = None
    /\ dl_last = None
    /\ dl_count = 0
    /\ SanIdle /\ RankIdle /\ ListerIdle /\ OrchIdle /\ OpsIdle /\ BatchIdle /\ ShellIdle
    /\ LogIdle

DownloadCall ==
    /\ dl_count < MaxCalls
    /\ \E clip \in ListedClips, dir \in Dirs, fmt \in Formats, tool \in DownloadOutcomes :
          LET r == download_clip(clip, dir, fmt, files, tool) IN
          /\ files' = r.files
          /\ dl_prev' = dl_last
          /\ dl_last' = Some([clip |-> clip, dir |-> dir, fmt |-> fmt,
                              existed |-> OutputPath(clip, dir, fmt) \in files,
                              tool |-> IF r.invoked THEN tool ELSE NotRun,
                              invoked |-> r.invoked, ret |-> r.ret])
          /\ dl_count' = dl_count + 1
    /\ UNCHANGED <<sanVars, rankVars, listerVars, orchVars, opsVars, batchVars, shellVars,
                   logVars>>

SpecDownloader == DlInit /\ [][DownloadCall]_vars

\* Two calls in a row with the same clip, directory and format.
SameCallTwice ==
    /\ dl_prev # None
    /\ dl_last # None
    /\ dl_prev[1].clip = dl_last[1].clip
    /\ dl_prev[1].dir = dl_last[1].dir
    /\ dl_prev[1].fmt = dl_last[1].fmt

Invocations(call) == IF call.invoked THEN 1 ELSE 0

(* C2, as claimed: two calls in a row with the same clip, directory and
   format perform exactly one external download invocation in total, and the
   second call returns the existing destination path without invoking.  It is
   stated here for the most favourable case only: a clip that has a URL and
   whose destination file was not there before the first call. *)
C2_Original_TwoCallsExactlyOneInvocation ==
    (SameCallTwice /\ dl_prev[1].clip.url # "" /\ ~dl_prev[1].existed) =>
        /\ Invocations(dl_prev[1]) + Invocations(dl_last[1]) = 1
        /\ ~dl_last[1].invoked
        /\ dl_last[1].ret =
              Some(OutputPath(dl_last[1].clip, dl_last[1].dir, dl_last[1].fmt))

(* C2, amended: when the first of two calls in a row with the same clip,
   directory and format returned a path, the second call returns that same
   path without invoking the external tool, so the two calls make at most one
   invocation in total, and exactly one when the file was not there before
   the first call. *)
C2_SecondCallAfterSuccessDoesNotInvoke ==
    (SameCallTwice /\ dl_prev[1].ret # None) =>
        /\ dl_last[1].ret = dl_prev[1].ret
        /\ ~dl_last[1].invoked
        /\ Invocations(dl_prev[1]) + Invocations(dl_last[1]) <= 1
        /\ ~dl_prev[1].existed =>
              Invocations(dl_prev[1]) + Invocations(dl_last[1]) = 1

C2_Witness ==
    /\ SameCallTwice
    /\ ~dl_prev[1].existed
    /\ dl_prev[1].invoked
    /\ dl_prev[1].ret # None
    /\ dl_last[1].ret = dl_prev[1].ret
    /\ ~dl_last[1].invoked

(***************************************************************************)
(* The Orchestrator: main of twitch_clip_downloader.py ("cli"),             *)
(* download_clips of twitch_clip_downloader_gui.py ("gui") and              *)
(* download_clips_thread of simple_gui.py ("simple_gui").                   *)
(*                                                                         *)
(* The run is cut into its steps: the listing, the sort, one loop           *)
(* iteration per clip (download_clip, then create_metadata_file, then the  *)
(* append), and the end of the run (generate_platform_instructions).       *)
(* o_trace records each component call: [op, clip, res].                   *)
(***************************************************************************)
OutDir == "downloads"

\* The options of a run.  The command line has no switch for the
\* instructions: main always calls generate_platform_instructions.
RunOptions ==
    {[module |-> m, metadata |-> md, instructions |-> ins, format |-> "mp4"] :
        m \in {"cli", "gui", "simple_gui"}, md \in BOOLEAN, ins \in BOOLEAN}
    \ {[module |-> "cli", metadata |-> md, instructions |-> FALSE, format |-> "mp4"] :
        md \in BOOLEAN}

\* The scrape_clips a module calls: the gui imports the command line's.
ScraperOf(module) == IF module = "simple_gui" THEN "simple_gui" ELSE "cli"

Event(op, i, res) == [op |-> op, clip |-> i, res |-> res]

\* A main without the "if not clips: return".
AfterListingNoEarlyReturn(module, listed) ==
    IF module = "simple_gui" THEN "loop" ELSE "rank"

\* A run that goes from the listing straight to the loop, without the sort.
AfterListingSkipsRank(module, listed) ==
    IF listed = <<>> THEN "done" ELSE "loop"

\* Where the run goes after the listing: "if not clips: ... return"; the
\* command line and the gui sort next, simple_gui has sorted in scrape_clips.
AfterListing(module, listed) ==
    IF listed = <<>> THEN "done"
    ELSE IF module = "simple_gui" THEN "loop" ELSE "rank"

\* An iteration that appends the pair whatever download_clip returned.
AppendAlways(dc, clip, ret) ==
    Append(dc, <<clip, IF ret # None THEN ret[1] ELSE None>>)

\* if output_path: downloaded_clips.append((clip, output_path))
AppendIfPath(dc, clip, ret) ==
    IF ret # None THEN Append(dc, <<clip, ret[1]>>) ELSE dc

\* video_path.rsplit('.', 1)[0] + '.json'
MetadataPath(p) == [p EXCEPT !.ext = "json"]

OrchInit ==
    /\ o_pc = "start"
    /\ o_opts \in {Some(o) : o \in RunOptions}
    /\ o_listed = None
    /\ clips = <<>>
    /\ o_i = 0
    /\ downloaded_clips = <<>>
    /\ disk = {}
    /\ o_trace = <<>>
    /\ o_status = "running"
    /\ o_invoked = <<>>
    /\ SanIdle /\ RankIdle /\ ListerIdle /\ DlIdle /\ OpsIdle /\ BatchIdle /\ ShellIdle
    /\ LogIdle

\* clips = scrape_clips(...), then "if not clips: return".
List ==
    /\ o_pc = "start"
    /\ \E rc \in {0, 1}, out \in SeqUpTo(Lines, MaxListed) :
          LET r == scrape_clips(ScraperOf(o_opts[1].module), Username,
                                [returncode |-> rc, stdout |-> out])
              next == AfterListing(o_opts[1].module, r.clips)
          IN /\ o_listed' = Some(r.clips)
             /\ clips' = r.clips
             /\ o_trace' = Append(o_trace, Event("list", 0, "returned"))
             /\ o_pc' = next
             /\ o_status' = IF next = "done" THEN "no clips" ELSE o_status
    /\ UNCHANGED <<o_opts, o_i, downloaded_clips, disk, o_invoked>>
    /\ UNCHANGED <<sanVars, rankVars, listerVars, dlVars, opsVars, batchVars, shellVars,
                   logVars>>

\* clips.sort(key=lambda x: x.get('view_count', 0), reverse=True)
SortClips ==
    /\ o_pc = "rank"
    /\ clips' = SortByViewsDesc(clips)
    /\ o_trace' = Append(o_trace, Event("rank", 0, "returned"))
    /\ o_pc' = "loop"
    /\ UNCHANGED <<o_opts, o_listed, o_i, downloaded_clips, disk, o_status, o_invoked>>
    /\ UNCHANGED <<sanVars, rankVars, listerVars, dlVars, opsVars, batchVars, shellVars,
                   logVars>>

\* An iteration that writes the sidecar of every downloaded clip, whatever
\* the --metadata switch or the check box says.
MetadataCalledIfPath(ret, opts) == ret # None

\* if output_path and args.metadata: create_metadata_file(clip, output_path)
MetadataCalled(ret, opts) == ret # None /\ opts.metadata

\* One iteration of "for i, clip in enumerate(clips, 1)".
ProcessClip ==
    /\ o_pc = "loop"
    /\ o_i < Len(clips)
    /\ \E tool \in DownloadOutcomes, meta_ok \in BOOLEAN :
          LET i == o_i + 1
              clip == clips[i]
              r == download_clip(clip, OutDir, o_opts[1].format, disk, tool)
              meta == MetadataCalled(r.ret, o_opts[1])
          IN /\ disk' = IF meta /\ meta_ok
                        THEN r.files \cup {MetadataPath(r.ret[1])} ELSE r.files
             /\ o_trace' = o_trace
                    \o <<Event("download", i, IF r.ret # None THEN "path" ELSE "none")>>
                    \o (IF meta
                        THEN <<Event("metadata", i, IF meta_ok THEN "written" ELSE "failed")>>
                        ELSE <<>>)
             /\ o_invoked' = IF r.invoked THEN Append(o_invoked, i) ELSE o_invoked
             /\ downloaded_clips' = AppendIfPath(downloaded_clips, clip, r.ret)
             /\ o_i' = i
    /\ UNCHANGED <<o_pc, o_opts, o_listed, clips, o_status>>
    /\ UNCHANGED <<sanVars, rankVars, listerVars, dlVars, opsVars, batchVars, shellVars,
                   logVars>>

\* The path of the instructions file: os.path.join(output_dir,
\* "upload_instructions.txt").
InstructionsPath ==
    [dir |-> OutDir, broadcaster |-> "", name |-> <<"upload_instructions">>, ext |-> "txt"]

\* A generate_platform_instructions without "if not downloaded_clips: return".
generate_platform_instructions_NoEmptyCheck(dc, write_ok) ==
    IF write_ok THEN "written" ELSE "failed"

\* generate_platform_instructions: returns at once on an empty list, else
\* opens and writes the file; write_ok is whether open() and the writes
\* succeed.
generate_platform_instructions(dc, write_ok) ==
    IF dc = <<>> THEN "nothing"
    ELSE IF write_ok THEN "written" ELSE "failed"

\* Whether the run calls generate_platform_instructions: always in main,
\* under "if generate_instructions" in the GUIs.
InstructionsCalled(opts) == opts.module = "cli" \/ opts.instructions

\* After the loop: the summary line, then generate_platform_instructions.
\* Its open() and writes are not in a try, so an I/O error leaves it and
\* ends the run as an error.
Finish ==
    /\ o_pc = "loop"
    /\ o_i = Len(clips)
    /\ \E write_ok \in BOOLEAN :
          LET called == InstructionsCalled(o_opts[1])
              res == generate_platform_instructions(downloaded_clips, write_ok)
          IN /\ o_trace' = IF called
                           THEN Append(o_trace, Event("instructions", 0, res))
                           ELSE o_trace
             /\ disk' = IF called /\ res = "written"
                        THEN disk \cup {InstructionsPath}
                        ELSE disk
             /\ o_status' = IF called /\ res = "failed" THEN "error" ELSE "completed"
    /\ o_pc' = "done"
    /\ UNCHANGED <<o_opts, o_listed, clips, o_i, downloaded_clips, o_invoked>>
    /\ UNCHANGED <<sanVars, rankVars, listerVars, dlVars, opsVars, batchVars, shellVars,
                   logVars>>

OrchNext == List \/ SortClips \/ ProcessClip \/ Finish

Spec == OrchInit /\ [][OrchNext]_vars

Calls(op) == {k \in 1..Len(o_trace) : o_trace[k].op = op}

(* C3: when the listing step returns an empty sequence, the run ends
   reporting zero downloaded, and the Downloader, the Metadata Emitter and
   the Instructions Emitter are never invoked in that run. *)
C3_EmptyListingEndsRunWithoutCalls ==
    (o_listed # None /\ o_listed[1] = <<>>) =>
        /\ o_pc = "done"
        /\ o_status = "no clips"
        /\ downloaded_clips = <<>>
        /\ Calls("download") = {}
        /\ Calls("metadata") = {}
        /\ Calls("instructions") = {}

C3_Witness ==
    /\ o_listed = Some(<<>>)
    /\ o_pc = "done"
    /\ o_opts[1].module = "cli"
    /\ o_trace = <<Event("list", 0, "returned")>>

(***************************************************************************)
(* The processing operations of video_processor.py.                         *)
(*                                                                         *)
(* A video path is [dir, stem, suffix, ext]: the suffix is the sequence of  *)
(* parts appended to the stem ("_trimmed", "_for_" and a platform, ...).    *)
(* An input path is optional: batch_process passes None after a failure.    *)
(* A call yields: ret (None or the output path), raised (an exception       *)
(* leaves the call), ffmpeg (the runs of the transcoder binary it made, in  *)
(* order), temp_written (it created concat_list.txt) and temp (whether      *)
(* concat_list.txt exists when the call ends).                              *)
(***************************************************************************)
TranscoderExits == {"exit0", "exit1"}

Part(tag, arg) == <<tag, arg>>

\* subprocess.run(['ffmpeg', '-version'], ...) of check_ffmpeg
VersionProbe ==
    [kind |-> "version", op |-> "check_ffmpeg", input |-> None, output |-> None,
     target |-> ""]

\* subprocess.run(command, check=True, ...) of an operation
TranscodeRun(op, inp, out, target) ==
    [kind |-> "transcode", op |-> op, input |-> inp, output |-> Some(out),
     target |-> target]

OpResult(ret, raised, ff, written, temp) ==
    [ret |-> ret, raised |-> raised, ffmpeg |-> ff, temp_written |-> written,
     temp |-> temp]

\* filename, ext = os.path.splitext(input_path); f"{filename}{suffix}{ext}"
WithSuffix(path, part) == [path EXCEPT !.suffix = Append(@, part)]
\* filename, _ = os.path.splitext(input_path); f"{filename}.{output_format}"
WithExt(path, fmt) == [path EXCEPT !.ext = fmt]

\* The tail shared by trim, watermark, convert and resize: the output path
\* defaults from the input path (TypeError on None), the command holds the
\* input path (subprocess.run raises TypeError on None, which the
\* "except subprocess.CalledProcessError" does not catch), a non-zero exit
\* returns None.
RunOperation(op, inp, out, dflt, target, tool, temp) ==
    IF inp = None
    THEN OpResult(None, TRUE, <<VersionProbe>>, FALSE, temp)
    ELSE LET o == IF out = None THEN dflt ELSE out[1] IN
         OpResult(IF tool = "exit0" THEN Some(o) ELSE None, FALSE,
                  <<VersionProbe, TranscodeRun(op, inp, o, target)>>, FALSE, temp)

NotInstalled(temp) == OpResult(None, FALSE, <<VersionProbe>>, FALSE, temp)

trim_video(inp, out, installed, tool, temp) ==
    IF ~installed THEN NotInstalled(temp)
    ELSE RunOperation("trim", inp, out,
                      IF inp = None THEN None ELSE WithSuffix(inp[1], Part("_trimmed", "")),
                      "", tool, temp)

add_watermark(inp, out, installed, tool, temp) ==
    IF ~installed THEN NotInstalled(temp)
    ELSE RunOperation("watermark", inp, out,
                      IF inp = None THEN None
                      ELSE WithSuffix(inp[1], Part("_watermarked", "")),
                      "", tool, temp)

convert_format(inp, fmt, out, installed, tool, temp) ==
    IF ~installed THEN NotInstalled(temp)
    ELSE RunOperation("convert", inp, out,
                      IF inp = None THEN None ELSE WithExt(inp[1], fmt),
                      "", tool, temp)

\* The intro files that exist on disk: os.path.exists(intro_path).
IntroFiles == {"intro.mp4"}

\* add_intro: the concat list is opened for writing and its first line
\* written, then os.path.abspath(input_path) raises TypeError on None and the
\* file stays; otherwise the transcoder runs on the list and the file is
\* removed on success and on CalledProcessError.
add_intro(inp, intro_path, out, installed, tool, temp) ==
    IF ~installed THEN NotInstalled(temp)
    ELSE IF intro_path \notin IntroFiles
         THEN OpResult(None, FALSE, <<VersionProbe>>, FALSE, temp)
    ELSE IF inp = None
         THEN IF out = None THEN OpResult(None, TRUE, <<VersionProbe>>, FALSE, temp)
              ELSE OpResult(None, TRUE, <<VersionProbe>>, TRUE, TRUE)
    ELSE LET o == IF out = None THEN WithSuffix(inp[1], Part("_with_intro", ""))
                  ELSE out[1]
         IN OpResult(IF tool = "exit0" THEN Some(o) ELSE None, FALSE,
                     <<VersionProbe, TranscodeRun("intro", inp, o, "")>>, TRUE, FALSE)

\* platform_settings[...]["resolution"]
platform_settings ==
    [tiktok |-> "1080:1920", instagram |-> "1080:1080",
     instagram_story |-> "1080:1920", youtube |-> "1920:1080"]

\* str.lower() on the platform names drawn here.
Lower(name) ==
    CASE name = "TikTok" -> "tiktok"
      [] name = "YouTube" -> "youtube"
      [] OTHER -> name

\* A resize_for_platform that runs the transcoder before looking the
\* platform up, with youtube's target for an unknown one.
resize_for_platform_NoPlatformCheck(inp, platform, out, installed, tool, temp) ==
    IF ~installed THEN NotInstalled(temp)
    ELSE RunOperation("resize", inp, out,
                      IF inp = None THEN None
                      ELSE WithSuffix(inp[1], Part("_for_", platform)),
                      IF Lower(platform) \in DOMAIN platform_settings
                      THEN platform_settings[Lower(platform)]
                      ELSE platform_settings["youtube"],
                      tool, temp)

resize_for_platform(inp, platform, out, installed, tool, temp) ==
    IF ~installed THEN NotInstalled(temp)
    ELSE IF Lower(platform) \notin DOMAIN platform_settings
         THEN OpResult(None, FALSE, <<VersionProbe>>, FALSE, temp)
    ELSE RunOperation("resize", inp, out,
                      IF inp = None THEN None
                      ELSE WithSuffix(inp[1], Part("_for_", platform)),
                      platform_settings[Lower(platform)], tool, temp)

(***************************************************************************)
(* An operation spec is [type, intro_path, format, platform]; the fields    *)
(* an operation does not read hold the defaults batch_process gives them.   *)
(***************************************************************************)
OpSpec(type, intro_path, fmt, platform) ==
    [type |-> type, intro_path |-> intro_path, format |-> fmt, platform |-> platform]

Platforms == {"tiktok", "instagram", "instagram_story", "youtube", "TikTok", "vimeo"}

KnownOps ==
    {OpSpec("trim", "", "mp4", "youtube"), OpSpec("watermark", "", "mp4", "youtube")}
        \cup {OpSpec("intro", ip, "mp4", "youtube") : ip \in {"intro.mp4", ""}}
        \cup {OpSpec("convert", "", f, "youtube") : f \in Formats}
        \cup {OpSpec("resize", "", "mp4", pf) : pf \in Platforms}

Videos ==
    {[dir |-> "clips", stem |-> "x", suffix |-> <<>>, ext |-> "mp4"],
     [dir |-> "clips", stem |-> "y", suffix |-> <<>>, ext |-> "mov"]}

\* The dispatch on the operation type (process_single_file, and the if/elif
\* chain of batch_process).
OpCall(op, inp, out, installed, tool, temp) ==
    CASE op.type = "trim" -> trim_video(inp, out, installed, tool, temp)
      [] op.type = "watermark" -> add_watermark(inp, out, installed, tool, temp)
      [] op.type = "intro" -> add_intro(inp, op.intro_path, out, installed, tool, temp)
      [] op.type = "convert" -> convert_format(inp, op.format, out, installed, tool, temp)
      [] op.type = "resize" ->
            resize_for_platform(inp, op.platform, out, installed, tool, temp)

(***************************************************************************)
(* Direct calls of the operations (process_single_file): an operation, an   *)
(* input file, an output path or none, on a machine with or without the    *)
(* transcoder, which exits zero or non-zero.  The input file is on disk or *)
(* is not; no operation looks.                                              *)
(***************************************************************************)
GivenOutput == [dir |-> "out", stem |-> "result", suffix |-> <<>>, ext |-> "mp4"]

OpsInit ==
    /\ temp_list = FALSE
    /\ op_last = None
    /\ op_count = 0
    /\ SanIdle /\ RankIdle /\ ListerIdle /\ DlIdle /\ OrchIdle /\ BatchIdle /\ ShellIdle
    /\ LogIdle

\* How the transcoder can exit on an input file that is there or is not: it
\* cannot open a missing input and exits non-zero.
ExitsOn(present) == IF present THEN TranscoderExits ELSE {"exit1"}

DirectCall ==
    /\ op_count < MaxDirect
    /\ \E op \in KnownOps, file \in Videos, present \in BOOLEAN,
          out \in {None, Some(GivenOutput)}, installed \in BOOLEAN :
       \E tool \in ExitsOn(present) :
          LET r == OpCall(op, Some(file), out, installed, tool, temp_list) IN
          /\ op_last' = Some([op |-> op, input |-> Some(file), exists |-> present,
                              output |-> out, installed |-> installed, tool |-> tool,
                              res |-> r])
          /\ temp_list' = r.temp
    /\ op_count' = op_count + 1
    /\ UNCHANGED <<sanVars, rankVars, listerVars, dlVars, orchVars, batchVars, shellVars,
                   logVars>>

SpecOps == OpsInit /\ [][DirectCall]_vars

TranscodeRuns(call) ==
    {k \in 1..Len(call.res.ffmpeg) : call.res.ffmpeg[k].kind = "transcode"}

(* C9, as claimed: the resize operation invokes the transcoder only when the
   platform is one of tiktok, instagram, instagram_story, youtube, and then
   with the scale/pad target 1080:1920, 1080:1080, 1080:1920, 1920:1080
   respectively; for any other platform it returns failure and the transcoder
   is not invoked (stated for a machine on which the transcoder is installed,
   where every run recorded is a run of the binary). *)
C9_Original_ResizeInvokesOnlyForTheFourNames ==
    (op_last # None /\ op_last[1].op.type = "resize") =>
        LET call == op_last[1]
            pf == call.op.platform
            targets == [tiktok |-> "1080:1920", instagram |-> "1080:1080",
                        instagram_story |-> "1080:1920", youtube |-> "1920:1080"]
        IN /\ \A k \in TranscodeRuns(call) :
                 /\ pf \in DOMAIN targets
                 /\ call.res.ffmpeg[k].target = targets[pf]
           /\ (pf \notin DOMAIN targets /\ call.installed) =>
                 /\ call.res.ret = None
                 /\ call.res.ffmpeg = <<>>

(* C9, amended: the resize operation runs a transcode only when the platform
   name, lowercased, is one of tiktok, instagram, instagram_story, youtube,
   and then with the target 1080:1920, 1080:1080, 1080:1920, 1920:1080 of the
   lowercased name; for any other platform it returns failure without raising
   and runs no transcode: the only run of the transcoder binary is the
   "-version" probe of check_ffmpeg, made before the platform is looked at. *)
C9_ResizeTranscodesOnlyForKnownPlatforms ==
    (op_last # None /\ op_last[1].op.type = "resize") =>
        LET call == op_last[1]
            pf == Lower(call.op.platform)
            targets == [tiktok |-> "1080:1920", instagram |-> "1080:1080",
                        instagram_story |-> "1080:1920", youtube |-> "1920:1080"]
        IN /\ \A k \in TranscodeRuns(call) :
                 /\ pf \in DOMAIN targets
                 /\ call.res.ffmpeg[k].target = targets[pf]
           /\ pf \notin DOMAIN targets =>
                 /\ call.res.ret = None
                 /\ ~call.res.raised
                 /\ TranscodeRuns(call) = {}
                 /\ call.res.ffmpeg = <<VersionProbe>>

C9_Witness ==
    /\ op_last # None
    /\ op_last[1].op.type = "resize"
    /\ op_last[1].op.platform = "TikTok"
    /\ op_last[1].res.ret # None
    /\ \E k \in TranscodeRuns(op_last[1]) :
          op_last[1].res.ffmpeg[k].target = "1080:1920"

(***************************************************************************)
(* The Batch Runner: batch_process(input_dir, operations, output_dir).      *)
(*                                                                         *)
(* The run is cut at each turn of the inner loop "for operation in          *)
(* operations" and at the end of each turn of "for video_file in            *)
(* video_files".  op_calls records every operation call made.              *)
(***************************************************************************)
KnownTypes == {"trim", "watermark", "intro", "convert", "resize"}

BatchOps ==
    {OpSpec("trim", "", "mp4", "youtube"),
     OpSpec("watermark", "", "mp4", "youtube"),
     OpSpec("intro", "intro.mp4", "mp4", "youtube"),
     OpSpec("intro", "", "mp4", "youtube"),
     OpSpec("convert", "", "mov", "youtube"),
     OpSpec("resize", "", "mp4", "tiktok"),
     OpSpec("resize", "", "mp4", "vimeo"),
     OpSpec("rotate", "", "mp4", "youtube")}

\* list_video_files(input_dir): the video files of the source directory.
VideoLists ==
    {fs \in SeqUpTo(Videos, Cardinality(Videos)) :
        \A i, j \in 1..Len(fs) : i # j => fs[i] # fs[j]}

\* The output_path batch_process hands to an operation (lines 287-315): in
\* output_dir, from the stem and extension of the original file name.
BatchOutput(op, file, output_dir) ==
    LET base == [dir |-> output_dir, stem |-> file.stem, suffix |-> <<>>, ext |-> file.ext]
    IN CASE op.type = "trim" -> WithSuffix(base, Part("_trimmed", ""))
         [] op.type = "watermark" -> WithSuffix(base, Part("_watermarked", ""))
         [] op.type = "intro" -> WithSuffix(base, Part("_with_intro", ""))
         [] op.type = "convert" -> WithExt(base, op.format)
         [] op.type = "resize" -> WithSuffix(base, Part("_for_", op.platform))

BatchInit ==
    /\ b_pc = "running"
    /\ b_args \in {Some([video_files |-> fs, operations |-> ops,
                         output_dir |-> od, installed |-> inst]) :
                      fs \in VideoLists, ops \in SeqUpTo(BatchOps, MaxOps),
                      od \in {"clips/processed", "out"}, inst \in BOOLEAN}
    /\ b_file = 1
    /\ b_op = 1
    /\ current_input = IF b_args[1].video_files = <<>> THEN None
                       ELSE Some(b_args[1].video_files[1])
    /\ processed_files = <<>>
    /\ op_calls = <<>>
    /\ temp_list = FALSE /\ op_last = None /\ op_count = 0
    /\ SanIdle /\ RankIdle /\ ListerIdle /\ DlIdle /\ OrchIdle /\ ShellIdle
    /\ LogIdle

InChain ==
    /\ b_pc = "running"
    /\ b_file <= Len(b_args[1].video_files)
    /\ b_op <= Len(b_args[1].operations)

\* One turn of the inner loop on an operation of a known type: the call's
\* result becomes current_input; an exception leaves batch_process.
BatchOperation ==
    /\ InChain
    /\ b_args[1].operations[b_op].type \in KnownTypes
    /\ \E tool \in TranscoderExits :
          LET op == b_args[1].operations[b_op]
              file == b_args[1].video_files[b_file]
              r == OpCall(op, current_input,
                          Some(BatchOutput(op, file, b_args[1].output_dir)),
                          b_args[1].installed, tool, temp_list)
          IN /\ op_calls' = Append(op_calls,
                                   [file |-> b_file, index |-> b_op, op |-> op,
                                    input |-> current_input, tool |-> tool,
                                    res |-> r])
             /\ temp_list' = r.temp
             /\ IF r.raised
                THEN b_pc' = "raised" /\ UNCHANGED <<b_op, current_input>>
                ELSE b_pc' = b_pc /\ b_op' = b_op + 1 /\ current_input' = r.ret
    /\ UNCHANGED <<b_args, b_file, processed_files, op_last, op_count>>
    /\ UNCHANGED <<sanVars, rankVars, listerVars, dlVars, orchVars, shellVars,
                   logVars>>

\* One turn of the inner loop on an operation whose type no branch matches.
BatchUnknownType ==
    /\ InChain
    /\ b_args[1].operations[b_op].type \notin KnownTypes
    /\ b_op' = b_op + 1
    /\ UNCHANGED <<b_pc, b_args, b_file, current_input, processed_files, op_calls>>
    /\ UNCHANGED <<sanVars, rankVars, listerVars, dlVars, orchVars, opsVars, shellVars,
                   logVars>>

\* An end of chain that keeps every path, the untouched video file too.
KeepOutputAnyPath(cur, video_file) == cur # None

\* "current_input and current_input != video_file"
KeepOutput(cur, video_file) == cur # None /\ cur # Some(video_file)

\* After the inner loop: "if current_input and current_input != video_file:
\* processed_files.append(current_input)", then the next video file.
BatchEndFile ==
    /\ b_pc = "running"
    /\ b_file <= Len(b_args[1].video_files)
    /\ b_op > Len(b_args[1].operations)
    /\ processed_files' =
          IF KeepOutput(current_input, b_args[1].video_files[b_file])
          THEN Append(processed_files, current_input[1])
          ELSE processed_files
    /\ b_file' = b_file + 1
    /\ b_op' = 1
    /\ current_input' = IF b_file + 1 <= Len(b_args[1].video_files)
                        THEN Some(b_args[1].video_files[b_file + 1]) ELSE None
    /\ UNCHANGED <<b_pc, b_args, op_calls>>
    /\ UNCHANGED <<sanVars, rankVars, listerVars, dlVars, orchVars, opsVars, shellVars,
                   logVars>>

\* return processed_files
BatchReturn ==
    /\ b_pc = "running"
    /\ b_file > Len(b_args[1].video_files)
    /\ b_pc' = "returned"
    /\ UNCHANGED <<b_args, b_file, b_op, current_input, processed_files, op_calls>>
    /\ UNCHANGED <<sanVars, rankVars, listerVars, dlVars, orchVars, opsVars, shellVars,
                   logVars>>

BatchNext == BatchOperation \/ BatchUnknownType \/ BatchEndFile \/ BatchReturn

SpecBatch == BatchInit /\ [][BatchNext]_vars

\* The calls made for the file of index f, as positions of op_calls.
CallsFor(f) == {k \in 1..Len(op_calls) : op_calls[k].file = f}

\* The call at position k returned no output (it returned None, no exception).
ReturnedNoOutput(k) == op_calls[k].res.ret = None /\ ~op_calls[k].res.raised

\* The paths batch_process can produce from the video file of index f.
OutputsOf(f) ==
    {BatchOutput(op, b_args[1].video_files[f], b_args[1].output_dir) :
        op \in {o \in BatchOps : o.type \in KnownTypes}}

(* C6, as claimed: in a Batch Runner pass, once an operation returns no
   output for a file X, no later operation of the list is invoked for X, and
   X is absent from the final output list. *)
C6_FailedOperationEndsTheFilesChain ==
    \A k \in 1..Len(op_calls) :
        ReturnedNoOutput(k) =>
            /\ \A m \in CallsFor(op_calls[k].file) : m <= k
            /\ b_pc = "returned" =>
                  \A i \in 1..Len(processed_files) :
                      processed_files[i] \notin OutputsOf(op_calls[k].file)

\* trim returned None for the first file and add_watermark was then called
\* for the same file, with input None.
C6_LaterOperationInvokedAfterFailure ==
    /\ Len(op_calls) = 2
    /\ op_calls[1].op.type = "trim" /\ ReturnedNoOutput(1)
    /\ op_calls[1].res.ffmpeg # <<VersionProbe>>
    /\ op_calls[2].op.type = "watermark"
    /\ op_calls[2].file = op_calls[1].file
    /\ op_calls[2].input = None

(* C7, as claimed: in a Batch Runner pass, an operation failure for one file
   halts only that file's chain: the pass does not raise, and when it has
   returned its list every video file of the source directory has been run
   through the operation list. *)
C7_FailureHaltsOnlyThatFile ==
    /\ b_pc # "raised"
    /\ b_pc = "returned" =>
          \A f \in 1..Len(b_args[1].video_files) :
              \A j \in 1..Len(b_args[1].operations) :
                  (/\ b_args[1].operations[j].type \in KnownTypes
                   /\ \A m \in CallsFor(f) : op_calls[m].index < j => ~ReturnedNoOutput(m))
                  => \E m \in CallsFor(f) : op_calls[m].index = j

\* An operation failed for the first of two video files, the exception of the
\* next operation left batch_process, and the second file was never touched.
C7_PassRaisedBeforeTheOtherFile ==
    /\ b_pc = "raised"
    /\ Len(b_args[1].video_files) = 2
    /\ ReturnedNoOutput(1)
    /\ op_calls[Len(op_calls)].res.raised
    /\ CallsFor(2) = {}

(* C8, as claimed: whenever the intro operation has written its temporary
   concat-list file, that file no longer exists when the operation call
   ends, both when the transcoder call succeeds and when it fails. *)
C8_IntroRemovesItsConcatList ==
    /\ \A k \in 1..Len(op_calls) :
          (op_calls[k].op.type = "intro" /\ op_calls[k].res.temp_written)
              => ~op_calls[k].res.temp
    /\ (op_last # None /\ op_last[1].op.type = "intro" /\ op_last[1].res.temp_written)
          => ~op_last[1].res.temp

\* add_intro was called by batch_process with input None, created
\* concat_list.txt and ended by an exception with the file still there.
C8_ConcatListLeftBehind ==
    /\ b_pc = "raised"
    /\ op_calls[Len(op_calls)].op.type = "intro"
    /\ op_calls[Len(op_calls)].input = None
    /\ op_calls[Len(op_calls)].res.temp_written
    /\ temp_list

(***************************************************************************)
(* Further properties of the Orchestrator's loop over the clips.            *)
(***************************************************************************)
\* The download_clip calls of the run, in order.
DownloadEvents == SelectSeq(o_trace, LAMBDA e : e.op = "download")

\* The clips whose download_clip call returned a path.
Succeeded == {j \in 1..Len(DownloadEvents) : DownloadEvents[j].res = "path"}

\* The n-th smallest element of a set of numbers.
Nth(S, n) == CHOOSE j \in S : Cardinality({x \in S : x <= j}) = n

(* C11: in one Orchestrator run over a non-empty ranked list, the Downloader
   is called exactly once for every ranked clip, in ranked order, whatever
   the outcome of the other clips: a failed download is not retried (the
   tool is run at most once per clip), does not stop the clips after it, and
   is left out of the result list, which holds exactly the clips whose
   download returned a path, in that order. *)
C11_EveryClipDownloadedOnceInOrder ==
    /\ Len(DownloadEvents) = o_i
    /\ \A j \in 1..Len(DownloadEvents) : DownloadEvents[j].clip = j
    /\ \A j \in 1..Len(clips) :
          Cardinality({k \in 1..Len(o_invoked) : o_invoked[k] = j}) <= 1
    /\ o_pc = "done" => o_i = Len(clips)
    /\ Len(downloaded_clips) = Cardinality(Succeeded)
    /\ \A n \in 1..Len(downloaded_clips) :
          /\ downloaded_clips[n][1] = clips[Nth(Succeeded, n)]
          /\ downloaded_clips[n][2] =
                OutputPath(clips[Nth(Succeeded, n)], OutDir, o_opts[1].format)

C11_Witness ==
    /\ o_pc = "done"
    /\ Len(clips) = 2
    /\ o_invoked = <<1, 2>>
    /\ DownloadEvents[1].res = "none"
    /\ DownloadEvents[2].res = "path"
    /\ Len(downloaded_clips) = 1
    /\ downloaded_clips[1][1] = clips[2]

(***************************************************************************)
(* The entry points and the interactive shell: main of                     *)
(* twitch_clip_downloader.py ("cli"), TwitchClipDownloaderGUI of            *)
(* twitch_clip_downloader_gui.py ("gui") and of simple_gui.py               *)
(* ("simple_gui").                                                         *)
(*                                                                         *)
(* The shell lane is Tk's event loop: it runs one callback at a time, a     *)
(* click on an enabled button or the head of the pending "after"           *)
(* callbacks.  A pipeline run is a background thread started by            *)
(* start_download; it ends by scheduling callbacks with root.after.  A      *)
(* run is "running" while its pipeline works, "finally" once the try       *)
(* block is left and "done" after the finally clause.                      *)
(***************************************************************************)
ShellTools == {[ytdlp |-> y, ffmpeg |-> f] : y, f \in BOOLEAN}
RunOutcomes == {"completed", "no clips", "error"}

\* check_dependencies of twitch_clip_downloader.py: sys.exit(1) when yt-dlp
\* or ffmpeg cannot be run.
check_dependencies(tools) ==
    IF tools.ytdlp /\ tools.ffmpeg THEN "returned" ELSE "SystemExit"

\* The dependency check of a shell.  The gui's wraps check_dependencies in
\* "except Exception", which does not catch SystemExit: raised inside a Tk
\* callback it leaves the event loop and the process ends with status 1.
\* simple_gui's check_deps sets the status bar and shows a warning.
ShellCheck(module, tools, status) ==
    IF module = "gui"
    THEN IF check_dependencies(tools) = "SystemExit"
         THEN [exits |-> TRUE, status |-> status, warned |-> FALSE]
         ELSE [exits |-> FALSE, status |-> "Dependencies OK", warned |-> FALSE]
    ELSE IF tools.ytdlp /\ tools.ffmpeg
         THEN [exits |-> FALSE, status |-> "Dependencies OK", warned |-> FALSE]
         ELSE [exits |-> FALSE, status |-> "Missing dependencies", warned |-> TRUE]

\* The widgets self.root.winfo_children() returns: the main frame and the
\* status bar.  The buttons are children of button_frame, inside main_frame.
RootChildren ==
    {[name |-> "main_frame", class |-> "Frame"],
     [name |-> "status_bar", class |-> "Label"]}

\* The buttons a start_download or enable_buttons reaches.  The gui
\* configures the root's children that are ttk.Button; simple_gui
\* configures self.download_button and self.check_deps_button.
ButtonsReached(module) ==
    IF module = "gui" THEN {w.name : w \in {c \in RootChildren : c.class = "Button"}}
    ELSE {"download_button", "check_deps_button"}

Callback(kind, arg) == [kind |-> kind, arg |-> arg]

\* The root.after calls a run makes on leaving its try block.
OutcomeCallbacks(module, outcome) ==
    CASE outcome = "no clips" ->
            IF module = "gui"
            THEN <<Callback("enable_buttons", ""), Callback("status", "No clips found")>>
            ELSE <<Callback("status", "No clips found"), Callback("enable_buttons", "")>>
      [] outcome = "completed" ->
            <<Callback("status", "Completed"), Callback("dialog", "Download Complete")>>
      [] outcome = "error" ->
            <<Callback("status", "Error during download"), Callback("dialog", "Error")>>

ShellInit ==
    /\ s_module \in {"cli", "gui", "simple_gui"}
    /\ s_tools \in {Some(t) : t \in ShellTools}
    /\ s_pc = IF s_module = "cli" THEN "init" ELSE "ready"
    /\ s_exit = None
    /\ s_status = IF s_module = "cli" THEN "" ELSE "Ready"
    /\ s_warned = FALSE
    /\ start_button = "normal"
    /\ deps_button = "normal"
    /\ s_runs = <<>>
    /\ s_after = IF s_module = "cli" THEN <<>> ELSE <<Callback("check_deps", "")>>
    /\ ffmpeg_path = None
    /\ s_ffmpeg = <<>>
    /\ SanIdle /\ RankIdle /\ ListerIdle /\ DlIdle /\ OrchIdle /\ OpsIdle /\ BatchIdle
    /\ LogIdle

ShellFrame ==
    UNCHANGED <<sanVars, rankVars, listerVars, dlVars, orchVars, opsVars, batchVars,
                logVars>>

\* main of the command line: check_dependencies(), then the pipeline.
CliStart ==
    /\ s_pc = "init"
    /\ IF check_dependencies(s_tools[1]) = "SystemExit"
       THEN s_pc' = "exited" /\ s_exit' = Some(1) /\ s_runs' = s_runs
       ELSE /\ s_pc' = "pipeline"
            /\ s_exit' = s_exit
            /\ s_runs' = Append(s_runs, [lane |-> "main", pc |-> "running"])
    /\ UNCHANGED <<s_module, s_tools, s_status, s_warned, start_button, deps_button, s_after>>
    /\ UNCHANGED <<ffmpeg_path, s_ffmpeg>>
    /\ ShellFrame

\* The pipeline of the command line returns, or an exception reaches
\* "except Exception: sys.exit(1)".
CliEnd ==
    /\ s_pc = "pipeline"
    /\ \E outcome \in RunOutcomes :
          /\ s_exit' = Some(IF outcome = "error" THEN 1 ELSE 0)
          /\ s_runs' = [s_runs EXCEPT ![1].pc = "done"]
    /\ s_pc' = "exited"
    /\ UNCHANGED <<s_module, s_tools, s_status, s_warned, start_button, deps_button, s_after>>
    /\ UNCHANGED <<ffmpeg_path, s_ffmpeg>>
    /\ ShellFrame

\* self.ffmpeg_path after check_deps of simple_gui: set to None, then to the
\* first candidate of its fixed list that runs.  s_tools.ffmpeg says whether
\* one of the candidates runs; the portable download's directory and a
\* manually selected file are not among them.
check_deps_ffmpeg_path(tools, recorded) ==
    IF tools.ffmpeg THEN Some("ffmpeg") ELSE None

\* The dependency check runs in the shell lane.
DoShellCheck ==
    LET r == ShellCheck(s_module, s_tools[1], s_status) IN
    /\ s_pc' = IF r.exits THEN "exited" ELSE s_pc
    /\ s_exit' = IF r.exits THEN Some(1) ELSE s_exit
    /\ s_status' = r.status
    /\ s_warned' = (s_warned \/ r.warned)
    /\ ffmpeg_path' = IF s_module = "simple_gui"
                      THEN check_deps_ffmpeg_path(s_tools[1], ffmpeg_path)
                      ELSE ffmpeg_path

\* A click on "Check Dependencies".
ClickCheckDeps ==
    /\ s_pc = "ready"
    /\ deps_button = "normal"
    /\ DoShellCheck
    /\ UNCHANGED <<s_module, s_tools, start_button, deps_button, s_runs, s_after, s_ffmpeg>>
    /\ ShellFrame

\* A click on "Start Download": start_download.
ClickStart ==
    /\ s_pc = "ready"
    /\ start_button = "normal"
    /\ Len(s_runs) < MaxRuns
    /\ \E streamer \in {"", Username} :
          IF streamer = ""
          THEN UNCHANGED <<start_button, deps_button, s_status, s_runs>>
          ELSE /\ start_button' = IF "download_button" \in ButtonsReached(s_module)
                                  THEN "disabled" ELSE start_button
               /\ deps_button' = IF "check_deps_button" \in ButtonsReached(s_module)
                                 THEN "disabled" ELSE deps_button
               /\ s_status' = "Downloading clips..."
               /\ s_runs' = Append(s_runs, [lane |-> "thread", pc |-> "running"])
    /\ UNCHANGED <<s_module, s_tools, s_pc, s_exit, s_warned, s_after>>
    /\ UNCHANGED <<ffmpeg_path, s_ffmpeg>>
    /\ ShellFrame

\* A background run leaves its try block: by the "no clips" return, at the
\* end of the block, or through "except Exception".
RunEnds ==
    /\ s_pc = "ready"
    /\ \E k \in 1..Len(s_runs), outcome \in RunOutcomes :
          /\ s_runs[k].pc = "running"
          /\ s_runs' = [s_runs EXCEPT ![k].pc = "finally"]
          /\ s_after' = s_after \o OutcomeCallbacks(s_module, outcome)
    /\ UNCHANGED <<s_module, s_tools, s_pc, s_exit, s_status, s_warned, start_button,
                   deps_button>>
    /\ UNCHANGED <<ffmpeg_path, s_ffmpeg>>
    /\ ShellFrame

\* A finally clause that hands nothing to the event loop.
RunFinallyWithoutEnable ==
    /\ s_pc = "ready"
    /\ \E k \in 1..Len(s_runs) :
          /\ s_runs[k].pc = "finally"
          /\ s_runs' = [s_runs EXCEPT ![k].pc = "done"]
    /\ UNCHANGED <<s_module, s_tools, s_pc, s_exit, s_status, s_warned, start_button,
                   deps_button, s_after>>
    /\ UNCHANGED <<ffmpeg_path, s_ffmpeg>>
    /\ ShellFrame

\* finally: self.root.after(0, self.enable_buttons)
RunFinally ==
    /\ s_pc = "ready"
    /\ \E k \in 1..Len(s_runs) :
          /\ s_runs[k].pc = "finally"
          /\ s_runs' = [s_runs EXCEPT ![k].pc = "done"]
    /\ s_after' = Append(s_after, Callback("enable_buttons", ""))
    /\ UNCHANGED <<s_module, s_tools, s_pc, s_exit, s_status, s_warned, start_button,
                   deps_button>>
    /\ UNCHANGED <<ffmpeg_path, s_ffmpeg>>
    /\ ShellFrame

\* The event loop runs the oldest pending callback.
RunAfter ==
    /\ s_pc = "ready"
    /\ s_after # <<>>
    /\ LET cb == Head(s_after) IN
       CASE cb.kind = "check_deps" ->
               /\ DoShellCheck
               /\ s_after' = Tail(s_after)
               /\ UNCHANGED <<start_button, deps_button>>
         [] cb.kind = "status" ->
               /\ s_status' = cb.arg
               /\ s_after' = Tail(s_after)
               /\ UNCHANGED <<s_pc, s_exit, s_warned, start_button, deps_button,
                              ffmpeg_path>>
         [] cb.kind = "dialog" ->
               /\ s_after' = Tail(s_after)
               /\ UNCHANGED <<s_pc, s_exit, s_status, s_warned, start_button, deps_button,
                              ffmpeg_path>>
         [] cb.kind = "enable_buttons" ->
               /\ IF s_module = "gui"
                  THEN /\ start_button' = IF "download_button" \in ButtonsReached(s_module)
                                          THEN "normal" ELSE start_button
                       /\ deps_button' = IF "check_deps_button" \in ButtonsReached(s_module)
                                         THEN "normal" ELSE deps_button
                       /\ s_after' = Tail(s_after)
                  ELSE /\ s_after' = Tail(s_after)
                              \o <<Callback("configure", "download_button"),
                                   Callback("configure", "check_deps_button")>>
                       /\ UNCHANGED <<start_button, deps_button>>
               /\ UNCHANGED <<s_pc, s_exit, s_status, s_warned, ffmpeg_path>>
         [] cb.kind = "configure" ->
               /\ start_button' = IF cb.arg = "download_button" THEN "normal"
                                  ELSE start_button
               /\ deps_button' = IF cb.arg = "check_deps_button" THEN "normal"
                                 ELSE deps_button
               /\ s_after' = Tail(s_after)
               /\ UNCHANGED <<s_pc, s_exit, s_status, s_warned, ffmpeg_path>>
    /\ UNCHANGED <<s_module, s_tools, s_runs, s_ffmpeg>>
    /\ ShellFrame

\* A click on "Download FFmpeg" of simple_gui: download_ffmpeg.  It records
\* the location of the extracted ffmpeg.exe, or fails (no network, no
\* ffmpeg.exe in the archive) and records nothing.  The button is never
\* disabled.  ask_ffmpeg_path, the manual selection, has no caller.
ClickDownloadFfmpeg ==
    /\ s_pc = "ready"
    /\ s_module = "simple_gui"
    /\ Len(s_ffmpeg) < MaxFfmpegLog
    /\ \E found \in BOOLEAN :
          IF found
          THEN /\ ffmpeg_path' = Some("portable")
               /\ s_ffmpeg' = Append(s_ffmpeg, [kind |-> "recorded",
                                                location |-> Some("portable")])
          ELSE UNCHANGED <<ffmpeg_path, s_ffmpeg>>
    /\ UNCHANGED <<s_module, s_tools, s_pc, s_exit, s_status, s_warned, start_button,
                   deps_button, s_runs, s_after>>
    /\ ShellFrame

\* A background run of simple_gui calls download_clip and the download
\* command is run: it is extended by --ffmpeg-location when self.ffmpeg_path
\* is set.  (The gui calls the command line's download_clip, whose command
\* never holds a location.)
RunDownload ==
    /\ s_pc = "ready"
    /\ s_module = "simple_gui"
    /\ Len(s_ffmpeg) < MaxFfmpegLog
    /\ \E k \in 1..Len(s_runs) : s_runs[k].pc = "running"
    /\ s_ffmpeg' = Append(s_ffmpeg, [kind |-> "download", location |-> ffmpeg_path])
    /\ UNCHANGED <<s_module, s_tools, s_pc, s_exit, s_status, s_warned, start_button,
                   deps_button, s_runs, s_after, ffmpeg_path>>
    /\ ShellFrame

ShellNext ==
    \/ CliStart \/ CliEnd \/ ClickCheckDeps \/ ClickStart \/ RunEnds \/ RunFinally
    \/ RunAfter \/ ClickDownloadFfmpeg \/ RunDownload

SpecShell == ShellInit /\ [][ShellNext]_vars

\* The background runs whose pipeline is in progress.
ActiveRuns == {k \in 1..Len(s_runs) : s_runs[k].lane = "thread" /\ s_runs[k].pc = "running"}

(* C12, as claimed: in the interactive shell at most one pipeline run is
   active at any time: while a run is in progress the "Start Download"
   control is disabled, so no second background run is started. *)
C12_AtMostOneActiveRun ==
    /\ Cardinality(ActiveRuns) <= 1
    /\ ActiveRuns # {} => start_button = "disabled"

\* Two background runs of the gui are in progress at once, the button
\* never having been disabled.
C12_TwoRunsInProgress ==
    /\ s_module = "gui"
    /\ Cardinality(ActiveRuns) = 2
    /\ start_button = "normal"

(***************************************************************************)
(* The log sink: sys.stdout is a RedirectText over the log text widget.    *)
(*                                                                         *)
(* log(message) is print(...), which calls write twice: once with the      *)
(* text, once with the line end.  Two lanes log: the shell lane (a         *)
(* callback of the event loop, such as download_ffmpeg) and the worker     *)
(* lane (the background run).  write takes no lock; its steps are: read    *)
(* self.buffer, store self.buffer, configure(state="normal"), insert and   *)
(* see, configure(state="disabled").  A text widget whose state is         *)
(* "disabled" ignores insert.  With a threaded Tcl a widget call of the    *)
(* worker is carried out by the event loop, so it waits while the shell    *)
(* lane is inside a callback; with a non-threaded Tcl the calls of the two *)
(* lanes interleave call by call.                                          *)
(***************************************************************************)
Lanes == {"shell", "worker"}

\* The n-th chunk a lane writes: the text of a message (n odd) or its line
\* end (n even).
Chunk(lane, n) == [lane |-> lane, n |-> n]

LogInit ==
    /\ tcl_threaded \in BOOLEAN
    /\ log_state = "disabled"
    /\ log_text = <<>>
    /\ log_buffer = <<>>
    /\ w_pc = [l \in Lanes |-> 0]
    /\ w_tmp = [l \in Lanes |-> <<>>]
    /\ w_done = [l \in Lanes |-> 0]
    /\ SanIdle /\ RankIdle /\ ListerIdle /\ DlIdle /\ OrchIdle /\ OpsIdle /\ BatchIdle
    /\ ShellIdle

LogFrame ==
    UNCHANGED <<sanVars, rankVars, listerVars, dlVars, orchVars, opsVars, batchVars,
                shellVars, tcl_threaded>>

\* The shell lane is inside its callback: in a write, or between the two
\* writes of one print.
ShellBusy == w_pc["shell"] # 0 \/ w_done["shell"] % 2 = 1

\* Whether a widget call of the lane can be carried out now.
WidgetCallAllowed(l) == l = "shell" \/ ~tcl_threaded \/ ~ShellBusy

\* write is entered and self.buffer is read (the left side of "+=").
BeginWrite ==
    \E l \in Lanes :
        /\ w_pc[l] = 0
        /\ w_done[l] < 2 * MaxLogs
        /\ w_tmp' = [w_tmp EXCEPT ![l] = log_buffer]
        /\ w_done' = [w_done EXCEPT ![l] = @ + 1]
        /\ w_pc' = [w_pc EXCEPT ![l] = 1]
        /\ UNCHANGED <<log_state, log_text, log_buffer>>
        /\ LogFrame

\* self.buffer is stored (the assignment of "+=").
StoreBuffer ==
    \E l \in Lanes :
        /\ w_pc[l] = 1
        /\ log_buffer' = Append(w_tmp[l], Chunk(l, w_done[l]))
        /\ w_pc' = [w_pc EXCEPT ![l] = 2]
        /\ UNCHANGED <<log_state, log_text, w_tmp, w_done>>
        /\ LogFrame

\* self.text_widget.configure(state="normal")
ConfigureNormal ==
    \E l \in Lanes :
        /\ w_pc[l] = 2
        /\ WidgetCallAllowed(l)
        /\ log_state' = "normal"
        /\ w_pc' = [w_pc EXCEPT ![l] = 3]
        /\ UNCHANGED <<log_text, log_buffer, w_tmp, w_done>>
        /\ LogFrame

\* self.text_widget.insert(tk.END, string); self.text_widget.see(tk.END)
InsertChunk ==
    \E l \in Lanes :
        /\ w_pc[l] = 3
        /\ WidgetCallAllowed(l)
        /\ log_text' = IF log_state = "normal"
                       THEN Append(log_text, Chunk(l, w_done[l])) ELSE log_text
        /\ w_pc' = [w_pc EXCEPT ![l] = 4]
        /\ UNCHANGED <<log_state, log_buffer, w_tmp, w_done>>
        /\ LogFrame

\* self.text_widget.configure(state="disabled"), and write returns.
ConfigureDisabled ==
    \E l \in Lanes :
        /\ w_pc[l] = 4
        /\ WidgetCallAllowed(l)
        /\ log_state' = "disabled"
        /\ w_pc' = [w_pc EXCEPT ![l] = 0]
        /\ UNCHANGED <<log_text, log_buffer, w_tmp, w_done>>
        /\ LogFrame

LogNext == BeginWrite \/ StoreBuffer \/ ConfigureNormal \/ InsertChunk \/ ConfigureDisabled

SpecLog == LogInit /\ [][LogNext]_vars

(* C13, as claimed: writes to the shared log sink are serialized: the
   background lane and the shell lane are never inside an append to the log
   sink at the same time, and the output is never interleaved (in the text
   shown, the text of a message is followed by its own line end). *)
C13_LogWritesSerialized ==
    /\ ~(w_pc["shell"] # 0 /\ w_pc["worker"] # 0)
    /\ \A i \in 1..(Len(log_text) - 1) :
          log_text[i].n % 2 = 1 =>
              log_text[i + 1] = Chunk(log_text[i].lane, log_text[i].n + 1)

\* With a threaded Tcl, both lanes have finished a message each, and in the
\* text shown the worker's message is cut from its line end by the shell's.
C13_InterleavedOutput ==
    /\ tcl_threaded
    /\ \A l \in Lanes : w_pc[l] = 0 /\ w_done[l] = 2
    /\ log_text = <<Chunk("worker", 1), Chunk("shell", 1), Chunk("shell", 2),
                    Chunk("worker", 2)>>

\* A required external tool is absent.
ToolMissing == ~(s_tools[1].ytdlp /\ s_tools[1].ffmpeg)

\* The dependency check scheduled at start-up has run.
StartupCheckRan == \A k \in 1..Len(s_after) : s_after[k].kind # "check_deps"

(* C14, as claimed: when a required external tool is absent, the
   command-line entry point terminates with exit status 1 before any listing
   or download is attempted, whereas in the interactive shell the same
   condition only produces a warning and the shell keeps running. *)
C14_MissingToolFatalOnlyForCommandLine ==
    (s_tools # None /\ ToolMissing) =>
        /\ (s_module = "cli" /\ s_pc # "init") =>
              s_pc = "exited" /\ s_exit = Some(1) /\ s_runs = <<>>
        /\ s_module # "cli" =>
              /\ s_pc # "exited"
              /\ s_exit = None
              /\ StartupCheckRan => s_warned

\* The gui's dependency check ended the process with status 1, no warning
\* having been shown.
C14_GuiExitsOnMissingTool ==
    /\ s_module = "gui"
    /\ ToolMissing
    /\ s_pc = "exited"
    /\ s_exit = Some(1)
    /\ ~s_warned

(***************************************************************************)
(* The contract of one operation call, direct or made by batch_process.     *)
(***************************************************************************)
\* The call returned normally and, when it ran a transcode, returned the
\* transcode's output path on a zero exit and None on a non-zero exit.
OperationContract(call) ==
    /\ ~call.res.raised
    /\ \A k \in TranscodeRuns(call) :
          /\ call.tool = "exit0" => call.res.ret = call.res.ffmpeg[k].output
          /\ call.tool = "exit1" => call.res.ret = None

(* C15, as claimed: each processing operation (trim, watermark, intro,
   convert, resize) returns its output path when the transcoder exits zero
   and returns no output path when the transcoder exits non-zero; for no
   input does an exception escape the operation call. *)
C15_OperationsReturnAndNeverRaise ==
    /\ op_last # None => OperationContract(op_last[1])
    /\ \A k \in 1..Len(op_calls) : OperationContract(op_calls[k])

\* convert_format, called by batch_process with input None after trim
\* returned None, left the call by an exception.
C15_OperationRaisedOnNoneInput ==
    /\ Len(op_calls) = 2
    /\ op_calls[1].op.type = "trim"
    /\ op_calls[1].tool = "exit1"
    /\ op_calls[1].res.ret = None
    /\ op_calls[2].op.type = "convert"
    /\ op_calls[2].input = None
    /\ op_calls[2].res.raised

(***************************************************************************)
(* The result of batch_process.                                             *)
(***************************************************************************)
\* The operations of the list that batch_process has a branch for.
KnownIndices == {j \in 1..Len(b_args[1].operations) :
                    b_args[1].operations[j].type \in KnownTypes}

\* Every operation call made for the video file of index f returned a path.
ChainCompleted(f) == \A m \in CallsFor(f) : op_calls[m].res.ret # None

\* The output path of the last operation of a known type, for file f.
FinalOutput(f) ==
    LET last == CHOOSE j \in KnownIndices : \A i \in KnownIndices : i <= j
    IN BatchOutput(b_args[1].operations[last], b_args[1].video_files[f],
                   b_args[1].output_dir)

(* C16, as claimed: the Batch Runner's result contains exactly one final
   output path for each video file for which every operation of the list
   returned an output, and no entry for any other file; this holds for every
   operation list, including the empty list and lists with operation types
   the runner does not know. *)
C16_Original_OneEntryPerCompletedFile ==
    b_pc = "returned" =>
        LET good == {f \in 1..Len(b_args[1].video_files) : ChainCompleted(f)}
        IN /\ Len(processed_files) = Cardinality(good)
           /\ \A n \in 1..Len(processed_files) :
                 processed_files[n] \in OutputsOf(Nth(good, n))

(* C16, amended: when batch_process returns, its result holds, in the order
   of the video files, exactly one path for each video file for which every
   operation call returned an output, provided the list holds at least one
   operation of a type the runner knows: the output path of the last such
   operation.  With an empty list, or a list of unknown types only, no
   operation is called and the result is empty. *)
C16_OneEntryPerFileThatWasProcessed ==
    b_pc = "returned" =>
        LET good == {f \in 1..Len(b_args[1].video_files) :
                        KnownIndices # {} /\ ChainCompleted(f)}
        IN /\ Len(processed_files) = Cardinality(good)
           /\ \A n \in 1..Len(processed_files) :
                 processed_files[n] = FinalOutput(Nth(good, n))
           /\ KnownIndices = {} => (processed_files = <<>> /\ op_calls = <<>>)

C16_Witness ==
    /\ b_pc = "returned"
    /\ Len(b_args[1].video_files) = 2
    /\ Len(b_args[1].operations) = 2
    /\ b_args[1].operations[1].type = "rotate"
    /\ b_args[1].operations[2].type = "trim"
    /\ ~ChainCompleted(1)
    /\ ChainCompleted(2)
    /\ processed_files = <<FinalOutput(2)>>

(***************************************************************************)
(* The order of the steps of an Orchestrator run.                           *)
(***************************************************************************)
\* The names of the component calls of the run, in order.
TraceOps == [k \in 1..Len(o_trace) |-> o_trace[k].op]

(* C17: every Orchestrator run follows the linear sequence List, Rank, then
   per clip Download followed by its optional Metadata, then optional
   Instructions, then Done: the listing is the first step and happens once,
   the clips are ranked before the first download, the downloads go through
   the clips in increasing order, a clip's metadata is written right after
   its own successful download (so before the next clip's download),
   Instructions is called at most once, as the last step, after the last
   clip was handled, and no step is revisited. *)
C17_RunIsLinear ==
    /\ \A k \in 1..Len(o_trace) : o_trace[k].op = "list" <=> k = 1
    /\ \A k \in Calls("rank") : k = 2
    /\ Calls("download") # {} => clips = SortByViewsDesc(clips)
    /\ \A k, m \in Calls("download") : k < m => o_trace[k].clip < o_trace[m].clip
    /\ \A k \in Calls("metadata") :
          /\ k > 1
          /\ o_trace[k - 1] = Event("download", o_trace[k].clip, "path")
    /\ \A k \in Calls("instructions") :
          /\ k = Len(o_trace)
          /\ o_pc = "done"
          /\ o_i = Len(clips)
          /\ Cardinality(Calls("download")) = Len(clips)
    /\ o_pc = "done" => (o_listed # None /\ (clips # <<>> => o_i = Len(clips)))

C17_Witness ==
    /\ o_pc = "done"
    /\ o_opts[1].module = "cli"
    /\ o_listed[1] # clips
    /\ TraceOps = <<"list", "rank", "download", "metadata", "download", "instructions">>

\* Whether the download tool was run for the clip of index j.
ToolRunFor(j) == \E k \in 1..Len(o_invoked) : o_invoked[k] = j

(* C18: a clip record whose url is empty never causes an external download
   invocation: the Downloader returns a failure for it (so it is not in the
   result list), and the batch continues with the next clip instead of
   aborting. *)
C18_EmptyUrlNeverInvokesTool ==
    /\ \A j \in 1..o_i :
          clips[j].url = "" =>
              /\ ~ToolRunFor(j)
              /\ DownloadEvents[j].res = "none"
              /\ \A n \in 1..Len(downloaded_clips) : downloaded_clips[n][1] # clips[j]
    /\ (o_pc = "done" /\ clips # <<>>) => Len(DownloadEvents) = Len(clips)

C18_Witness ==
    /\ o_pc = "done"
    /\ Len(clips) = 2
    /\ clips[1].url = ""
    /\ clips[2].url # ""
    /\ o_invoked = <<2>>
    /\ Len(downloaded_clips) = 1

(* C19: after invoking the external download tool, the Downloader returns
   the destination path only if the tool exited zero and the destination
   file exists; if the tool exited non-zero or the file is absent it returns
   a failure marker (None) and never the path. *)
C19_PathOnlyAfterZeroExitAndFile ==
    (dl_last # None /\ dl_last[1].invoked) =>
        LET call == dl_last[1]
            p == OutputPath(call.clip, call.dir, call.fmt)
        IN /\ call.ret \in {None, Some(p)}
           /\ call.ret = Some(p) => (call.tool.status = "exit0" /\ p \in files)
           /\ (call.tool.status # "exit0" \/ p \notin files) => call.ret = None

C19_Witness ==
    /\ dl_last # None
    /\ dl_last[1].invoked
    /\ dl_last[1].tool.status = "exit0"
    /\ OutputPath(dl_last[1].clip, dl_last[1].dir, dl_last[1].fmt) \notin files
    /\ dl_last[1].ret = None

(* C20, as claimed: a failure to write a metadata sidecar or the
   instructions file does not abort the batch: the remaining clips are still
   processed, the clip whose sidecar failed still counts as downloaded, and
   the run still ends with its normal summary and a success outcome (not an
   error exit or error state). *)
C20_WriteFailuresDoNotAbort ==
    /\ \A k \in Calls("metadata") :
          o_trace[k].res = "failed" =>
              \E n \in 1..Len(downloaded_clips) :
                  downloaded_clips[n][1] = clips[o_trace[k].clip]
    /\ (o_pc = "done" /\ clips # <<>>) =>
          /\ Len(DownloadEvents) = Len(clips)
          /\ o_status = "completed"

\* Every clip was downloaded, the instructions file could not be written,
\* and the run ended as an error.
C20_InstructionsFailureEndsInError ==
    /\ o_pc = "done"
    /\ o_status = "error"
    /\ Len(clips) = 2
    /\ Len(downloaded_clips) = 2
    /\ o_trace[Len(o_trace)] = Event("instructions", 0, "failed")

(* C21: the instructions file is written in a run only if the
   emit-instructions input is true and at least one clip was downloaded;
   when the result sequence is empty (every download failed) the
   Instructions Emitter writes nothing.  The command line has no such input:
   its runs always ask for the instructions. *)
C21_InstructionsOnlyIfAskedAndNonEmpty ==
    /\ \A k \in Calls("instructions") :
          o_trace[k].res \in {"written", "failed"} =>
              /\ o_opts[1].instructions
              /\ downloaded_clips # <<>>
    /\ InstructionsPath \in disk =>
          /\ o_opts[1].instructions
          /\ downloaded_clips # <<>>
          /\ o_pc = "done"
    /\ (o_pc = "done" /\ downloaded_clips = <<>>) => InstructionsPath \notin disk

\* Every download of a non-empty listing failed, the emitter was called and
\* wrote nothing.
C21_Witness ==
    /\ o_pc = "done"
    /\ Len(clips) = 2
    /\ downloaded_clips = <<>>
    /\ o_opts[1].instructions
    /\ o_trace[Len(o_trace)] = Event("instructions", 0, "nothing")
    /\ InstructionsPath \notin disk

(***************************************************************************)
(* The destination paths of one run.                                       *)
(***************************************************************************)
\* The path download_clip derives for the i-th clip of the run.
PathOfClip(i) == OutputPath(clips[i], OutDir, o_opts[1].format)

\* The i-th clip was returned by the "already exists" check: download_clip
\* returned a path without running the tool.
ShortCircuited(i) ==
    /\ i <= Len(DownloadEvents)
    /\ DownloadEvents[i].res = "path"
    /\ ~ToolRunFor(i)

(* C22, as claimed: the output filename the Downloader derives is
   collision-safe: within one batch two distinct clips are never resolved to
   the same destination path, so a clip is skipped as already downloaded
   only when its own file was already present (in a run that starts on an
   empty directory: only when the very same clip came earlier in the
   list). *)
C22_DistinctClipsDistinctPaths ==
    /\ \A i, j \in 1..Len(clips) :
          clips[i] # clips[j] => PathOfClip(i) # PathOfClip(j)
    /\ \A i \in 1..Len(clips) :
          ShortCircuited(i) => \E k \in 1..(i - 1) : clips[k] = clips[i]

\* Two clips with different ids, titles and urls got the same path: the
\* first was downloaded, the second was skipped as already there and is
\* reported with the first one's file.
C22_SecondClipTakenForTheFirst ==
    /\ o_pc = "done"
    /\ Len(clips) = 2
    /\ clips[1].id # clips[2].id
    /\ clips[1].url # clips[2].url
    /\ clips[1].title # clips[2].title
    /\ PathOfClip(1) = PathOfClip(2)
    /\ ToolRunFor(1)
    /\ ShortCircuited(2)
    /\ Len(downloaded_clips) = 2
    /\ downloaded_clips[1][2] = downloaded_clips[2][2]

(***************************************************************************)
(* The listing request: the command each call site hands to the listing    *)
(* tool.  The command line takes --hours, the two GUIs a period out of     *)
(* their combo box; the gui maps its period to hours and calls the command *)
(* line's scrape_clips, simple_gui has its own.  A date is a day number;   *)
(* "now" is drawn.                                                          *)
(***************************************************************************)
Periods == {"24h", "7d", "30d", "all"}
HoursValues == {24, 7 * 24, 30 * 24, 90 * 24, 365 * 24}
Days == {40, 41}

\* The period scrape_clips of the command line derives from hours; it only
\* goes into the URL that is printed.
PeriodOfHours(hours) ==
    IF hours = 7 * 24 THEN "7d"
    ELSE IF hours = 30 * 24 THEN "30d"
    ELSE IF hours = 90 * 24 THEN "all"
    ELSE "24h"

\* hours_map.get(period, 24) of the gui.
hours_map(period) ==
    CASE period = "24h" -> 24
      [] period = "7d" -> 7 * 24
      [] period = "30d" -> 30 * 24
      [] period = "all" -> 365 * 24
      [] OTHER -> 24

\* get_date_filter: now minus the period, 24 hours for any other value.
get_date_filter(period, now) ==
    CASE period = "24h" -> now - 1
      [] period = "7d" -> now - 7
      [] period = "30d" -> now - 30
      [] OTHER -> now - 1

\* The command list without the time filter (the same in both modules).
BaseCommand(username, limit, min_views) ==
    [tool |-> "yt-dlp", url |-> username, match_filter |-> min_views,
     playlist_end |-> limit, dateafter |-> None]

\* The command scrape_clips of the command line builds: hours is not used.
CliCommand(username, hours, limit, min_views) ==
    BaseCommand(username, limit, min_views)

\* The command scrape_clips of simple_gui builds.
SimpleGuiCommand(username, period, limit, min_views, now) ==
    IF period # "all"
    THEN [BaseCommand(username, limit, min_views)
            EXCEPT !.dateafter = Some(get_date_filter(period, now))]
    ELSE BaseCommand(username, limit, min_views)

\* The command built at a call site from its inputs.
CommandAt(site, in) ==
    CASE site = "cli" -> CliCommand(Username, in.hours, in.limit, in.min_views)
      [] site = "gui" ->
            CliCommand(Username, hours_map(in.period), in.limit, in.min_views)
      [] site = "simple_gui" ->
            SimpleGuiCommand(Username, in.period, in.limit, in.min_views, in.now)

\* The time window selected at a call site.
WindowAt(site, in) ==
    IF site = "cli" THEN PeriodOfHours(in.hours) ELSE in.period

RequestInputs(site) ==
    IF site = "cli"
    THEN {[hours |-> h, limit |-> l, min_views |-> v, now |-> d] :
             h \in HoursValues, l \in 1..MaxLimit, v \in 0..MaxViews, d \in Days}
    ELSE {[period |-> pr, limit |-> l, min_views |-> v, now |-> d] :
             pr \in Periods, l \in 1..MaxLimit, v \in 0..MaxViews, d \in Days}

RequestInit ==
    /\ q_site \in {"cli", "gui", "simple_gui"}
    /\ q_input \in {Some(in) : in \in RequestInputs(q_site)}
    /\ q_command = None
    /\ entry = "cli" /\ result = None /\ scraped = None
    /\ SanIdle /\ RankIdle /\ DlIdle /\ OrchIdle /\ OpsIdle /\ BatchIdle /\ ShellIdle
    /\ LogIdle

BuildCommand ==
    /\ q_input # None
    /\ q_command = None
    /\ q_command' = Some(CommandAt(q_site, q_input[1]))
    /\ UNCHANGED <<q_site, q_input, entry, result, scraped>>
    /\ UNCHANGED <<sanVars, rankVars, dlVars, orchVars, opsVars, batchVars, shellVars,
                   logVars>>

SpecRequest == RequestInit /\ [][BuildCommand]_vars

(* C23, as claimed: in every call site that builds the listing request, the
   request carries a created-on-or-after date filter exactly when the
   selected time window is not all-time (last 24 hours, last 7 days, last 30
   days), and carries none for all-time. *)
C23_DateFilterExactlyWhenNotAllTime ==
    q_command # None =>
        (q_command[1].dateafter # None <=> WindowAt(q_site, q_input[1]) # "all")

\* The command line was asked for the last 24 hours and built a request
\* without a date filter.
C23_NoFilterForLastDay ==
    /\ q_site = "cli"
    /\ q_command # None
    /\ q_input[1].hours = 24
    /\ q_command[1].dateafter = None

(***************************************************************************)
(* Progress of the interactive shell.  A background run comes to the end   *)
(* of its try block, runs its finally clause, and the event loop carries   *)
(* out the callbacks handed to root.after: weak fairness on the three      *)
(* steps.  Clicks are the user's and are not forced.                        *)
(***************************************************************************)
SpecShellFair ==
    /\ SpecShell
    /\ WF_vars(RunEnds)
    /\ WF_vars(RunFinally)
    /\ WF_vars(RunAfter)

\* The k-th run was started by "Start Download".
Started(k) == k <= Len(s_runs) /\ s_runs[k].lane = "thread"

\* The k-th run is through its finally clause.
Finished(k) == k <= Len(s_runs) /\ s_runs[k].pc = "done"

ControlsEnabled == start_button = "normal" /\ deps_button = "normal"

(* C24: after a pipeline run is started in the interactive shell, the
   pipeline-triggering controls are eventually re-enabled in every outcome
   of the run (normal completion, the no-clips early exit, termination by an
   error): the run gets through its finally clause and both buttons are in
   state "normal" again, unless the process has ended meanwhile. *)
C24_ControlsEventuallyReenabled ==
    \A k \in 1..MaxRuns :
        Started(k) ~> (s_pc = "exited" \/ (Finished(k) /\ ControlsEnabled))

\* A run of simple_gui, which had disabled both buttons, ended by an error;
\* its callbacks have all run and both buttons are enabled again.
C24_Witness ==
    /\ s_module = "simple_gui"
    /\ Len(s_runs) = 1
    /\ Finished(1)
    /\ s_status = "Error during download"
    /\ s_after = <<>>
    /\ ControlsEnabled

\* The create_metadata_file calls made for the i-th clip.
MetadataCallsFor(i) == {k \in Calls("metadata") : o_trace[k].clip = i}

(* C25: in an Orchestrator run the Metadata Emitter is invoked for a clip
   exactly when that clip's Downloader call returned a path and the
   emit-metadata input is true (once, right after the download); this
   includes a path returned by the already-exists short-circuit, and it is
   never invoked for a clip whose download failed. *)
C25_MetadataExactlyForDownloadedClips ==
    /\ \A i \in 1..Len(DownloadEvents) :
          /\ MetadataCallsFor(i) # {} <=>
                (DownloadEvents[i].res = "path" /\ o_opts[1].metadata)
          /\ Cardinality(MetadataCallsFor(i)) <= 1
    /\ \A k \in Calls("metadata") :
          /\ k > 1
          /\ o_trace[k - 1] = Event("download", o_trace[k].clip, "path")

\* The same clip was listed twice and the sidecars are asked for: the
\* second call of the Downloader returned the path by the already-exists
\* check and the Metadata Emitter was invoked for it too.
C25_Witness ==
    /\ o_pc = "done"
    /\ o_opts[1].metadata
    /\ Len(clips) = 2
    /\ ToolRunFor(1)
    /\ ShortCircuited(2)
    /\ MetadataCallsFor(1) # {}
    /\ MetadataCallsFor(2) # {}

\* The lines of the tool's output that json.loads accepts: the objects and
\* the other JSON values (a number, a string, null, a list).
JsonLines(out) == {i \in 1..Len(out) : out[i].kind \in {"object", "scalar"}}

\* The records of the object lines, in output order.
RECURSIVE ObjectRecords(_)
ObjectRecords(out) ==
    IF out = <<>> THEN <<>>
    ELSE IF Head(out).kind = "object"
         THEN <<ClipOf(Head(out).obj, Username)>> \o ObjectRecords(Tail(out))
         ELSE ObjectRecords(Tail(out))

(* C26, as claimed: when the listing tool exits zero, the Lister returns
   exactly one record for each non-empty output line that parses as JSON, in
   output order: a line that is skipped removes only itself and never causes
   the records of other lines to be dropped. *)
C26_OneRecordPerJsonLineInOrder ==
    (scraped # None /\ result[1].returncode = 0) =>
        /\ Len(scraped[1].clips) = Cardinality(JsonLines(result[1].stdout))
        /\ \A i \in 1..Len(result[1].stdout) :
              result[1].stdout[i].kind = "object" =>
                  \E n \in 1..Len(scraped[1].clips) :
                      scraped[1].clips[n] = ClipOf(result[1].stdout[i].obj, Username)
        /\ JsonLines(result[1].stdout) = {i \in 1..Len(result[1].stdout) :
                                              result[1].stdout[i].kind = "object"}
              => scraped[1].clips = ObjectRecords(result[1].stdout)

\* The tool exited zero and printed two clip objects and then a JSON value
\* that is not an object: the command line's Lister returned nothing.
C26_ScalarLineDropsEveryRecord ==
    /\ entry = "cli"
    /\ scraped # None
    /\ result[1].returncode = 0
    /\ Len(result[1].stdout) = 3
    /\ result[1].stdout[1].kind = "object"
    /\ result[1].stdout[2].kind = "object"
    /\ result[1].stdout[3].kind = "scalar"
    /\ scraped[1].clips = <<>>

(* C27, as claimed: each processing operation checks that its input file
   exists and, when it does not, returns failure without invoking the
   transcoder on it. *)
C27_MissingInputIsNotTranscoded ==
    (op_last # None /\ ~op_last[1].exists) =>
        /\ op_last[1].res.ret = None
        /\ TranscodeRuns(op_last[1]) = {}

\* trim_video was called on a file that is not there and ran the transcoder
\* on it.
C27_TranscoderRunOnMissingInput ==
    /\ op_last # None
    /\ op_last[1].op.type = "trim"
    /\ ~op_last[1].exists
    /\ op_last[1].installed
    /\ \E k \in TranscodeRuns(op_last[1]) :
          op_last[1].res.ffmpeg[k].input = op_last[1].input
    /\ op_last[1].res.ret = None

(* C28, as claimed: if a Downloader call for a clip returned failure, a
   later call for the same clip and directory (and format) returns a path
   only after an external download invocation that exited zero: a file left
   at the destination by a failed invocation is never reported as a
   successful download by the already-exists short-circuit. *)
C28_PathAfterFailureNeedsZeroExit ==
    (SameCallTwice /\ dl_prev[1].ret = None /\ dl_last[1].ret # None) =>
        /\ dl_last[1].invoked
        /\ dl_last[1].tool.status = "exit0"

\* The tool exited non-zero and left a file at the destination; the call
\* returned None.  The next call for the same clip found the file and
\* returned its path without running the tool.
C28_LeftoverReportedAsDownloaded ==
    /\ SameCallTwice
    /\ ~dl_prev[1].existed
    /\ dl_prev[1].invoked
    /\ dl_prev[1].tool = [status |-> "exit1", wrote |-> TRUE]
    /\ dl_prev[1].ret = None
    /\ dl_last[1].existed
    /\ ~dl_last[1].invoked
    /\ dl_last[1].ret = Some(OutputPath(dl_last[1].clip, dl_last[1].dir, dl_last[1].fmt))

(* C29, as claimed: in the standalone interactive shell, once a transcoder
   location has been recorded (by the portable download or by manual
   selection), a later dependency check that does not find the transcoder in
   its fixed candidate list does not clear the recorded location, so every
   later download still passes the location hint to the download tool. *)
C29_RecordedLocationIsKept ==
    s_module = "simple_gui" =>
        /\ \A i, j \in 1..Len(s_ffmpeg) :
              (i < j /\ s_ffmpeg[i].kind = "recorded" /\ s_ffmpeg[j].kind = "download")
                  => s_ffmpeg[j].location # None
        /\ (\E i \in 1..Len(s_ffmpeg) : s_ffmpeg[i].kind = "recorded")
              => ffmpeg_path # None

\* The portable download recorded its location, a dependency check that
\* found no transcoder among its candidates cleared it, and the download
\* that followed was run without the location hint.
C29_HintLostAfterCheck ==
    /\ s_module = "simple_gui"
    /\ ~s_tools[1].ffmpeg
    /\ s_status = "Missing dependencies"
    /\ ffmpeg_path = None
    /\ s_ffmpeg = <<[kind |-> "recorded", location |-> Some("portable")],
                    [kind |-> "download", location |-> None]>>

\* The transcodes of the k-th operation call of the pass that were asked to
\* write the file they read.
OverwritingRuns(k) ==
    {n \in TranscodeRuns(op_calls[k]) :
        op_calls[k].res.ffmpeg[n].input = op_calls[k].res.ffmpeg[n].output}

(* C30, as claimed: in a Batch Runner chain whose destination directory
   differs from the source directory, no operation is ever invoked with an
   output path equal to its input path (the transcoder is never asked to
   overwrite the file it is reading), for every operation list, including
   lists that repeat an operation type. *)
C30_NoOperationOverwritesItsInput ==
    \A k \in 1..Len(op_calls) :
        LET file == b_args[1].video_files[op_calls[k].file] IN
        b_args[1].output_dir # file.dir =>
            /\ op_calls[k].input #
                  Some(BatchOutput(op_calls[k].op, file, b_args[1].output_dir))
            /\ OverwritingRuns(k) = {}

\* The list [trim, trim] with destination "out": the first trim wrote
\* out/x_trimmed.mp4, the second was handed that file as its input and as its
\* output path, and ran the transcoder on it.
C30_SecondTrimOverwritesItsInput ==
    /\ b_args # None
    /\ b_args[1].output_dir = "out"
    /\ Len(op_calls) = 2
    /\ op_calls[1].op.type = "trim"
    /\ op_calls[2].op.type = "trim"
    /\ op_calls[1].file = op_calls[2].file
    /\ op_calls[2].input = op_calls[1].res.ret
    /\ op_calls[2].input # None
    /\ OverwritingRuns(2) # {}

====
